---- MODULE Spec2Model ----
(***************************************************************************)
(* Model of diskettejs/use-render: the prop mergers (utils.ts), the ref    *)
(* composer (use-composed-ref.ts) and the resolvers built on them.         *)
(*                                                                         *)
(* JavaScript values are records [t |-> type tag, v |-> payload], the      *)
(* payload always a sequence of strings so that any two values compare.    *)
(* A props object is a function from its own keys to values; a key that is *)
(* absent is outside the DOMAIN, a key that is present and holds undefined *)
(* is inside it.  Keys are sequences of characters, so that the handler    *)
(* pattern /^on[A-Z]/ is computed on the key and not looked up.            *)
(***************************************************************************)
EXTENDS Integers, Sequences, FiniteSets, TLC

VARIABLES
    \* ---- mergeProps and the handler it composes
    defaultProps,   \* first argument of mergeProps
    props,          \* second argument of mergeProps
    result,         \* the object mergeProps returned
    mpc,            \* "init" | "merged" | "called"
    lastCall,       \* what the last invocation of a handler of result did
    callLog,        \* every handler body run so far, in order
    nCalls          \* number of invocations so far

mergeVars == <<defaultProps, props, result, mpc, lastCall, callLog, nCalls>>

VARIABLES
    \* ---- ref targets and the composed ref
    refList,        \* the refs array handed to useComposedRef / mergeRefs
    held,           \* per target: what it holds (ref.current, or the last
                    \* value a callback ref was given)
    live,           \* per target: assignments of an instance not yet undone
    events,         \* writes made by the last call of the composed ref
    cleanupEvents,  \* writes made by the last run of a returned cleanup
    returned,       \* the cleanup closure the last composed call returned
    lastOp,         \* the last operation
    prevOp,         \* the operation before it
    nOps            \* number of operations so far

refVars ==
    <<refList, held, live, events, cleanupEvents, returned, lastOp, prevOp,
      nOps>>

VARIABLES
    \* ---- the host (React) rendering a component that calls useRender
    phase,          \* "initial" | "mounted" | "unmounted"
    propsRef,       \* options.props.ref of the last render
    optionsRef,     \* options.ref of the last render
    baseRef,        \* options.baseProps.ref
    memo,           \* the useMemo cell of useComposedRef
    prevId,         \* the identity of the composed ref before the last render
    prevList,       \* the refs array of the render before the last
    instance,       \* the element instance the composed ref is attached to
    prevInstance,   \* the instance before the last render
    repeated        \* some composed refs array named a target twice

hostVars ==
    <<phase, propsRef, optionsRef, baseRef, memo, prevId, prevList,
      instance, prevInstance, repeated>>

VARIABLES
    \* ---- one call of a resolver (utils.ts, render-slot.ts, use-render.ts)
    tag,            \* the default tag argument
    state,          \* the state argument
    options,        \* the options argument: baseProps, props and ref
    out,            \* what the call returned
    fnCalls,        \* the calls of consumer- or author-supplied functions
                    \* the call made, in order, each with its arguments
    rpc             \* "init", then the name of the function that ran

resolverVars == <<tag, state, options, out, fnCalls, rpc>>

VARIABLES
    \* ---- a component that calls a hook resolver over several renders
    cells,          \* the useMemo / useCallback cells of the hook
    ids,            \* the identity (generation) of the caller's values
    renders,        \* the number of renders so far
    itemStates,     \* the item states given to renderItem in this render
    itemOut,        \* what the last renderItem call returned
    containerEl,    \* what rendering Container returned in this render
    tree            \* the children the caller passed to Container

hookVars ==
    <<cells, ids, renders, itemStates, itemOut, containerEl, tree>>

vars == <<mergeVars, refVars, hostVars, resolverVars, hookVars>>

----------------------------------------------------------------------------
(* Bounds *)

MaxCalls == 2
MaxRefs == 3
MaxRefOps == 3
MaxRenders == 2
MaxHookRenders == 2
MaxItems == 2

----------------------------------------------------------------------------
(* JavaScript values *)

Undefined == [t |-> "undefined", v |-> <<>>]
Null == [t |-> "null", v |-> <<>>]
Str(s) == [t |-> "string", v |-> s]
Fn(id) == [t |-> "function", v |-> <<id>>]
\* the arrow function mergeProps creates for `key`; it closes over key,
\* props and defaultProps and reads props[key], defaultProps[key] when called
Composed(key) == [t |-> "composed", v |-> key]

isFunction(value) == value.t \in {"function", "composed"}
isUndefined(value) == value.t = "undefined"

\* JavaScript truthiness: undefined, null, "", false and 0 are falsy
Truthy(value) ==
    CASE value.t = "undefined" -> FALSE
      [] value.t = "null" -> FALSE
      [] value.t = "string" -> value.v # <<>>
      [] value.t = "boolean" -> value.v = <<"true">>
      [] value.t = "number" -> value.v # <<"0">>
      [] OTHER -> TRUE

EmptyObject == [k \in {} |-> Undefined]

\* obj[key]: undefined for a key the object does not have
Get(obj, key) == IF key \in DOMAIN obj THEN obj[key] ELSE Undefined

\* { ...a, ...b }
Spread(a, b) ==
    [k \in DOMAIN a \cup DOMAIN b |-> IF k \in DOMAIN b THEN b[k] ELSE a[k]]

----------------------------------------------------------------------------
(* Keys and handlers *)

UpperCase ==
    {"A", "B", "C", "D", "E", "F", "G", "H", "I", "J", "K", "L", "M",
     "N", "O", "P", "Q", "R", "S", "T", "U", "V", "W", "X", "Y", "Z"}

KeyOnClick == <<"o", "n", "C", "l", "i", "c", "k">>
KeyOnce == <<"o", "n", "c", "e">>
KeyId == <<"i", "d">>
Keys == {KeyOnClick, KeyOnce, KeyId}

\* /^on[A-Z]/.test(key)
isHandler(key) ==
    /\ Len(key) >= 3
    /\ key[1] = "o"
    /\ key[2] = "n"
    /\ key[3] \in UpperCase

\* The handler bodies of the tests: each records that it ran and returns
\* its own result.
DefaultHandler == "defaultHandler"
UserHandler == "userHandler"

HandlerReturn(id) ==
    IF id = UserHandler THEN Str(<<"user-result">>)
    ELSE Str(<<"default-result">>)

\* What one call did: the handler bodies that ran, in order, the value
\* returned, and whether the call ended by throwing.
Returned(calls, ret) == [calls |-> calls, ret |-> ret, threw |-> FALSE]
Threw(calls) == [calls |-> calls, ret |-> Undefined, threw |-> TRUE]
NoCall == [key |-> <<>>, calls |-> <<>>, ret |-> Undefined, threw |-> FALSE]

\* value(...args) for a value that is not one of mergeProps' own closures:
\* calling a non-function is a TypeError
\* a handler whose body throws
UserThrows == "userThrows"
DefaultThrows == "defaultThrows"
ThrowingHandlers == {UserThrows, DefaultThrows}

CallPlain(value) ==
    IF value.t = "function"
    THEN IF value.v[1] \in ThrowingHandlers
         THEN Threw(<<value.v[1]>>)
         ELSE Returned(<<value.v[1]>>, HandlerReturn(value.v[1]))
    ELSE Threw(<<>>)

\* A faulty variant of the composed handler: a failure of the base handler
\* is caught and the override's result returned.
composedHandler_CatchBase(key, dProps, uProps) ==
    LET u == CallPlain(Get(uProps, key))
        d == CallPlain(dProps[key])
    IN  IF u.threw THEN Threw(u.calls)
        ELSE Returned(u.calls \o d.calls, u.ret)

\* A faulty variant of the composed handler: the base handler runs first.
composedHandler_BaseFirst(key, dProps, uProps) ==
    LET d == CallPlain(dProps[key])
        u == CallPlain(Get(uProps, key))
    IN  IF d.threw THEN Threw(d.calls)
        ELSE IF u.threw THEN Threw(d.calls \o u.calls)
        ELSE Returned(d.calls \o u.calls, u.ret)

\* the body of the arrow function of mergeProps:
\*   const userResult = props[key](...args); defaultProps[key](...args);
\*   return userResult
composedHandler(key, dProps, uProps) ==
    LET u == CallPlain(Get(uProps, key))
        d == CallPlain(dProps[key])
    IN  IF u.threw THEN Threw(u.calls)
        ELSE IF d.threw THEN Threw(u.calls \o d.calls)
        ELSE Returned(u.calls \o d.calls, u.ret)

\* value(...args) for a value of the merged object
CallValue(value, dProps, uProps) ==
    IF value.t = "composed"
    THEN composedHandler(value.v, dProps, uProps)
    ELSE CallPlain(value)

\* Faulty variants of mergeProps: composing on the key pattern alone; base
\* values winning over override values.
mergeProps_NoGuard(dProps, uProps) ==
    LET spread == Spread(dProps, uProps)
    IN  [k \in DOMAIN spread |->
            IF k \in DOMAIN dProps /\ isHandler(k)
            THEN Composed(k) ELSE spread[k]]

mergeProps_BaseWins(dProps, uProps) ==
    LET spread == Spread(uProps, dProps)
    IN  [k \in DOMAIN spread |->
            IF /\ k \in DOMAIN dProps
               /\ isHandler(k)
               /\ Truthy(dProps[k])
               /\ Truthy(Get(uProps, k))
            THEN Composed(k) ELSE spread[k]]

\* mergeProps(defaultProps, props)
mergeProps(dProps, uProps) ==
    LET spread == Spread(dProps, uProps)
    IN  [k \in DOMAIN spread |->
            IF /\ k \in DOMAIN dProps
               /\ isHandler(k)
               /\ Truthy(dProps[k])
               /\ Truthy(Get(uProps, k))
            THEN Composed(k) ELSE spread[k]]

----------------------------------------------------------------------------
(* Ref targets (use-composed-ref.ts) *)

\* A ref target is an object ref ({ current }), a callback ref that returns
\* nothing, or a callback ref that returns its own cleanup function.
RefA == "refA"
RefB == "refB"
RefC == "refC"
NoRef == "undefined"
ObjectRefs == {RefA}
CallbackRefs == {RefB}
CleanupCallbackRefs == {RefC}
Targets == ObjectRefs \cup CallbackRefs \cup CleanupCallbackRefs

Instances == {"X", "Y"}
NullInst == "null"

Ev(ref, kind, value) == [ref |-> ref, kind |-> kind, value |-> value]

\* what a call of a ref, or of assignRef, returns
NoCleanup == [kind |-> "undefined", ref |-> NoRef]
OwnCleanup(ref) == [kind |-> "own", ref |-> ref]
SynthCleanup(ref) == [kind |-> "synth", ref |-> ref]

\* A faulty variant of assignRef: object refs are not written.
assignRef_FunctionOnly(ref, value, h) ==
    IF ref \in CallbackRefs \cup CleanupCallbackRefs
    THEN [held |-> [h EXCEPT ![ref] = value],
          ev |-> <<Ev(ref, "call", value)>>,
          ret |-> IF ref \in CleanupCallbackRefs
                  THEN OwnCleanup(ref) ELSE NoCleanup]
    ELSE [held |-> h, ev |-> <<>>, ret |-> NoCleanup]

\* assignRef(ref, value): a function ref is called and its result returned,
\* an object ref gets current = value, an absent ref is skipped
assignRef(ref, value, h) ==
    IF ref \in CallbackRefs \cup CleanupCallbackRefs
    THEN [held |-> [h EXCEPT ![ref] = value],
          ev |-> <<Ev(ref, "call", value)>>,
          ret |-> IF ref \in CleanupCallbackRefs
                  THEN OwnCleanup(ref) ELSE NoCleanup]
    ELSE IF ref \in ObjectRefs
    THEN [held |-> [h EXCEPT ![ref] = value],
          ev |-> <<Ev(ref, "set", value)>>,
          ret |-> NoCleanup]
    ELSE [held |-> h, ev |-> <<>>, ret |-> NoCleanup]

\* A faulty variant of recordCleanup: the target's own cleanup is ignored.
recordCleanup_AlwaysSynth(ref, ret) == SynthCleanup(ref)

\* cleanups.push(isCleanup ? cleanup : () => assignRef(ref, null))
recordCleanup(ref, ret) ==
    IF ret.kind = "own" THEN ret ELSE SynthCleanup(ref)

\* cleanup(): the target's own cleanup clears what the target holds; the
\* synthesized one is assignRef(ref, null)
runCleanup(cleanup, h) ==
    IF cleanup.kind = "own"
    THEN [held |-> [h EXCEPT ![cleanup.ref] = NullInst],
          ev |-> <<Ev(cleanup.ref, "cleanup", NullInst)>>]
    ELSE LET a == assignRef(cleanup.ref, NullInst, h)
         IN  [held |-> a.held, ev |-> a.ev]

\* A faulty variant of mergeRefs: the cleanups are not recorded.
RECURSIVE mergeRefs_NoCleanup(_, _, _)
mergeRefs_NoCleanup(refs, value, h) ==
    IF refs = <<>>
    THEN [held |-> h, ev |-> <<>>, cleanups |-> <<>>]
    ELSE LET a == assignRef(Head(refs), value, h)
             rest == mergeRefs_NoCleanup(Tail(refs), value, a.held)
         IN  [held |-> rest.held, ev |-> a.ev \o rest.ev, cleanups |-> <<>>]

\* the callback mergeRefs(refs) returns, called with value: the writes it
\* makes and the cleanups array it builds
RECURSIVE mergeRefs(_, _, _)
mergeRefs(refs, value, h) ==
    IF refs = <<>>
    THEN [held |-> h, ev |-> <<>>, cleanups |-> <<>>]
    ELSE LET a == assignRef(Head(refs), value, h)
             rest == mergeRefs(Tail(refs), value, a.held)
         IN  [held |-> rest.held,
              ev |-> a.ev \o rest.ev,
              cleanups |-> <<recordCleanup(Head(refs), a.ret)>>
                              \o rest.cleanups]

\* the function the composed callback returns:
\*   for (const cleanup of cleanups) cleanup()
RECURSIVE runCleanups(_, _)
runCleanups(cleanups, h) ==
    IF cleanups = <<>>
    THEN [held |-> h, ev |-> <<>>]
    ELSE LET c == runCleanup(Head(cleanups), h)
             rest == runCleanups(Tail(cleanups), c.held)
         IN  [held |-> rest.held, ev |-> c.ev \o rest.ev]

\* per target, the assignments of an instance that no cleanup and no
\* assignment of null has undone yet
RECURSIVE LiveAfter(_, _)
LiveAfter(l, evs) ==
    IF evs = <<>> THEN l
    ELSE LET e == Head(evs)
             n == IF e.value # NullInst THEN l[e.ref] + 1
                  ELSE IF l[e.ref] > 0 THEN l[e.ref] - 1 ELSE 0
         IN  LiveAfter([l EXCEPT ![e.ref] = n], Tail(evs))

SeqsUpTo(S, n) == UNION {[1..k -> S] : k \in 0..n}

HasRepeat(refs) ==
    \E i, j \in DOMAIN refs : i # j /\ refs[i] = refs[j] /\ refs[i] # NoRef

\* the entries of refs that are targets, in order
DefinedRefs(refs) == SelectSeq(refs, LAMBDA r : r # NoRef)

----------------------------------------------------------------------------
(* States of the parts a specification does not exercise *)

NoMemo == [deps |-> <<>>, refs |-> <<>>, id |-> 0]

MergeIdle ==
    /\ defaultProps = EmptyObject
    /\ props = EmptyObject
    /\ result = EmptyObject
    /\ mpc = "init"
    /\ lastCall = NoCall
    /\ callLog = <<>>
    /\ nCalls = 0

RefIdle ==
    /\ refList = <<>>
    /\ held = [t \in Targets |-> NullInst]
    /\ live = [t \in Targets |-> 0]
    /\ events = <<>>
    /\ cleanupEvents = <<>>
    /\ returned = <<>>
    /\ lastOp = "none"
    /\ prevOp = "none"
    /\ nOps = 0

HostIdle ==
    /\ phase = "initial"
    /\ propsRef = NoRef
    /\ optionsRef = [isArray |-> FALSE, items |-> <<NoRef>>]
    /\ baseRef = NoRef
    /\ memo = NoMemo
    /\ prevId = 0
    /\ prevList = <<>>
    /\ instance = NullInst
    /\ prevInstance = NullInst
    /\ repeated = FALSE

NoOptions == [baseProps |-> EmptyObject, props |-> EmptyObject]

ResolverIdle ==
    /\ tag = "div"
    /\ state = "inactive"
    /\ options = NoOptions
    /\ out = Undefined
    /\ fnCalls = <<>>
    /\ rpc = "init"

NoCell == [deps |-> <<>>, val |-> Undefined, gen |-> 0]

NoCells == [props |-> NoCell, container |-> NoCell, item |-> NoCell]

NoIds == [children |-> 0, baseChildren |-> 0]

HookIdle ==
    /\ cells = NoCells
    /\ ids = NoIds
    /\ renders = 0
    /\ itemStates = <<>>
    /\ itemOut = Undefined
    /\ containerEl = Undefined
    /\ tree = Undefined

----------------------------------------------------------------------------
(* useComposedRef and the refs of useRender *)

KeyRef == <<"r", "e", "f">>
RefValue(ref) == [t |-> "ref", v |-> <<ref>>]
ComposedRef == [t |-> "composedRef", v |-> <<>>]

\* options.ref: a single ref (or undefined), or an array of them
SingleRef(ref) == [isArray |-> FALSE, items |-> <<ref>>]
RefArray(items) == [isArray |-> TRUE, items |-> items]

\* const refs = Array.isArray(options.ref)
\*   ? [ref, ...options.ref] : [ref, options.ref]
useRenderRefs(pRef, oRef) ==
    IF oRef.isArray THEN <<pRef>> \o oRef.items ELSE <<pRef, oRef.items[1]>>

MinOf(a, b) == IF a < b THEN a ELSE b

\* how useMemo compares the dependency arrays of two renders: Object.is on
\* each index both arrays have (React's areHookInputsEqual; arrays of
\* different lengths are compared on their common prefix)
areHookInputsEqual(nextDeps, prevDeps) ==
    \A i \in 1..MinOf(Len(nextDeps), Len(prevDeps)) : nextDeps[i] = prevDeps[i]

\* A faulty variant of useComposedRef: no memoization.
useComposedRef_NoMemo(refs, cell) ==
    [deps |-> refs, refs |-> refs, id |-> cell.id + 1]

\* useMemo(() => mergeRefs(refs), refs): the cell holds the dependencies,
\* the refs the composed callback closes over, and which callback it is
useComposedRef(refs, cell) ==
    IF cell # NoMemo /\ areHookInputsEqual(refs, cell.deps)
    THEN cell
    ELSE [deps |-> refs, refs |-> refs, id |-> cell.id + 1]

\* resolvedProps.ref of useRender. `ref` is destructured out of props, so
\* rest has no ref; base keeps the ref of baseProps:
\*   { ...mergeProps(base, rest), ref: mergedRef }
resolvedPropsRef(bRef, mergedRef) ==
    LET base == IF bRef = NoRef THEN EmptyObject
                ELSE [k \in {KeyRef} |-> RefValue(bRef)]
    IN  Spread(mergeProps(base, EmptyObject),
               [k \in {KeyRef} |-> mergedRef])[KeyRef]

\* the host attaches the element's ref prop to the instance
attachElementRef(refValue, cell, value, h) ==
    IF refValue.t = "composedRef"
    THEN mergeRefs(cell.refs, value, h)
    ELSE LET a == assignRef(refValue.v[1], value, h)
         IN  [held |-> a.held, ev |-> a.ev,
              cleanups |-> <<recordCleanup(refValue.v[1], a.ret)>>]

----------------------------------------------------------------------------
(* The inputs of mergeProps *)

BaseValues == {Fn(DefaultHandler), Undefined, Str(<<"a">>)}
OverrideValues == {Fn(UserHandler), Undefined, Null, Str(<<"b">>)}

ObjectsOver(values) ==
    UNION {[dom -> values] : dom \in SUBSET Keys}

----------------------------------------------------------------------------
(* mergeProps: one merge, then the host invokes handlers of the result *)

MergeInit ==
    /\ defaultProps \in ObjectsOver(BaseValues)
    /\ props \in ObjectsOver(OverrideValues)
    /\ result = EmptyObject
    /\ mpc = "init"
    /\ lastCall = NoCall
    /\ callLog = <<>>
    /\ nCalls = 0
    /\ RefIdle
    /\ HostIdle
    /\ HookIdle
    /\ ResolverIdle

DoMerge ==
    /\ mpc = "init"
    /\ result' = mergeProps(defaultProps, props)
    /\ mpc' = "merged"
    /\ UNCHANGED <<defaultProps, props, lastCall, callLog, nCalls>>
    /\ UNCHANGED <<refVars, hostVars, resolverVars, hookVars>>

\* an event fires on the element: the host calls result[key], when it is a
\* function
InvokeHandler(key) ==
    /\ mpc # "init"
    /\ nCalls < MaxCalls
    /\ key \in DOMAIN result
    /\ isFunction(result[key])
    /\ LET c == CallValue(result[key], defaultProps, props)
       IN  /\ lastCall' = [key |-> key, calls |-> c.calls,
                           ret |-> c.ret, threw |-> c.threw]
           /\ callLog' = callLog \o c.calls
    /\ mpc' = "called"
    /\ nCalls' = nCalls + 1
    /\ UNCHANGED <<defaultProps, props, result>>
    /\ UNCHANGED <<refVars, hostVars, resolverVars, hookVars>>

MergeNext ==
    \/ DoMerge
    \/ \E key \in Keys : InvokeHandler(key)

SpecMerge == MergeInit /\ [][MergeNext]_vars

----------------------------------------------------------------------------
(* Claims about mergeProps *)

BothFunctions(key) ==
    /\ key \in DOMAIN defaultProps
    /\ key \in DOMAIN props
    /\ defaultProps[key].t = "function"
    /\ props[key].t = "function"

\* C1: for a handler key at which base and override both hold a function,
\* the merged value is a new function, and each invocation of it runs the
\* override handler, then the base handler, and returns the override
\* handler's result.
C1_ComposedUserThenDefault ==
    /\ mpc # "init" =>
          \A key \in Keys :
              (isHandler(key) /\ BothFunctions(key)) =>
                  /\ isFunction(result[key])
                  /\ result[key] # props[key]
                  /\ result[key] # defaultProps[key]
    /\ (mpc = "called" /\ isHandler(lastCall.key)
          /\ BothFunctions(lastCall.key)) =>
          /\ lastCall.calls = <<props[lastCall.key].v[1],
                                defaultProps[lastCall.key].v[1]>>
          /\ lastCall.ret = HandlerReturn(props[lastCall.key].v[1])
          /\ ~lastCall.threw

C1_Witness ==
    /\ mpc = "called"
    /\ lastCall.key = KeyOnClick
    /\ BothFunctions(KeyOnClick)
    /\ nCalls = 2

\* C2: whenever the base holds a function at a handler key, the merged
\* value at that key is a function whose invocation runs the base handler,
\* whatever the override holds there.
C2_DefaultAlwaysRuns ==
    mpc # "init" =>
        \A key \in DOMAIN defaultProps :
            (isHandler(key) /\ defaultProps[key].t = "function") =>
                /\ isFunction(result[key])
                /\ \E i \in DOMAIN CallValue(result[key], defaultProps, props).calls :
                       CallValue(result[key], defaultProps, props).calls[i]
                           = defaultProps[key].v[1]

\* C3: the keys of the result are the keys of base and override together;
\* a non-handler key of override holds override's value, a key of base
\* alone holds base's value.
C3_UnionOverrideWins ==
    mpc # "init" =>
        /\ DOMAIN result = DOMAIN defaultProps \cup DOMAIN props
        /\ \A key \in DOMAIN props :
               ~isHandler(key) => result[key] = props[key]
        /\ \A key \in DOMAIN defaultProps \ DOMAIN props :
               result[key] = defaultProps[key]

C3_Witness ==
    /\ mpc = "merged"
    /\ DOMAIN defaultProps = Keys
    /\ DOMAIN props = {KeyOnce, KeyId}
    /\ defaultProps[KeyId] # props[KeyId]
    /\ defaultProps[KeyOnce] # props[KeyOnce]

\* C4: a handler key defined on one side only is not composed: invoking
\* the merged value runs that side's handler, once, and nothing else.
C4_OneSideOnly ==
    /\ mpc # "init" =>
          \A key \in Keys :
              /\ (key \in DOMAIN defaultProps \ DOMAIN props)
                    => result[key] = defaultProps[key]
              /\ (key \in DOMAIN props \ DOMAIN defaultProps)
                    => result[key] = props[key]
    /\ (mpc = "called" /\ isHandler(lastCall.key)) =>
          /\ (lastCall.key \notin DOMAIN props) =>
                /\ lastCall.calls = <<defaultProps[lastCall.key].v[1]>>
                /\ ~lastCall.threw
          /\ (lastCall.key \notin DOMAIN defaultProps) =>
                /\ lastCall.calls = <<props[lastCall.key].v[1]>>
                /\ ~lastCall.threw

C4_Witness ==
    /\ mpc = "called"
    /\ lastCall.key = KeyOnClick
    /\ KeyOnClick \in DOMAIN defaultProps \ DOMAIN props
    /\ lastCall.calls = <<DefaultHandler>>

----------------------------------------------------------------------------
(* The composed ref called directly: mergeRefs(refs) is built once; its   *)
(* holder calls it with an instance or with null, and runs the cleanup it *)
(* returned.                                                              *)

hostRest ==
    <<phase, propsRef, optionsRef, baseRef, memo, prevId, prevList,
      prevInstance, repeated>>

RefInit ==
    /\ MergeIdle
    /\ HostIdle
    /\ HookIdle
    /\ ResolverIdle
    /\ refList \in SeqsUpTo(Targets \cup {NoRef}, MaxRefs)
    /\ held = [t \in Targets |-> NullInst]
    /\ live = [t \in Targets |-> 0]
    /\ events = <<>>
    /\ cleanupEvents = <<>>
    /\ returned = <<>>
    /\ lastOp = "none"
    /\ prevOp = "none"
    /\ nOps = 0

\* composed(value)
Attach(value) ==
    /\ nOps < MaxRefOps
    /\ LET c == mergeRefs(refList, value, held)
       IN  /\ held' = c.held
           /\ events' = c.ev
           /\ returned' = c.cleanups
           /\ live' = LiveAfter(live, c.ev)
    /\ cleanupEvents' = <<>>
    /\ instance' = value
    /\ lastOp' = IF value = NullInst THEN "attachNull" ELSE "attach"
    /\ prevOp' = lastOp
    /\ nOps' = nOps + 1
    /\ UNCHANGED <<refList, mergeVars, hostRest, resolverVars, hookVars>>

\* the function the last composed(value) returned is run
RunReturned ==
    /\ nOps < MaxRefOps
    /\ lastOp # "none"
    /\ LET c == runCleanups(returned, held)
       IN  /\ held' = c.held
           /\ cleanupEvents' = c.ev
           /\ live' = LiveAfter(live, c.ev)
    /\ events' = <<>>
    /\ lastOp' = "cleanup"
    /\ prevOp' = lastOp
    /\ nOps' = nOps + 1
    /\ UNCHANGED <<refList, returned, instance, mergeVars, hostRest,
                   resolverVars, hookVars>>

RefNext ==
    \/ \E value \in Instances \cup {NullInst} : Attach(value)
    \/ RunReturned

SpecRef == RefInit /\ [][RefNext]_vars

----------------------------------------------------------------------------
(* Claims about the composed ref *)

\* the write assignRef makes to a target
WriteKind(ref) == IF ref \in ObjectRefs THEN "set" ELSE "call"

\* one assignment of value to each target of refs, in list order
AssignmentsOf(refs, value) ==
    [i \in DOMAIN DefinedRefs(refs) |->
        Ev(DefinedRefs(refs)[i], WriteKind(DefinedRefs(refs)[i]), value)]

\* one run of each cleanup action recorded for refs, in list order: the
\* target's own cleanup where its assignment returned one, an assignment
\* of null otherwise
RecordedCleanupsOf(refs) ==
    [i \in DOMAIN DefinedRefs(refs) |->
        IF DefinedRefs(refs)[i] \in CleanupCallbackRefs
        THEN Ev(DefinedRefs(refs)[i], "cleanup", NullInst)
        ELSE Ev(DefinedRefs(refs)[i], WriteKind(DefinedRefs(refs)[i]),
                NullInst)]

\* C5: attaching the composed ref with an instance assigns the instance to
\* every target, in list order; attaching null leaves every target holding
\* null.
C5_AttachAssignsAll ==
    /\ lastOp = "attach" =>
          /\ events = AssignmentsOf(refList, instance)
          /\ \A i \in DOMAIN refList :
                refList[i] # NoRef => held[refList[i]] = instance
    /\ lastOp = "attachNull" =>
          \A i \in DOMAIN refList :
              refList[i] # NoRef => held[refList[i]] = NullInst

C5_Witness ==
    /\ lastOp = "attachNull"
    /\ prevOp = "attach"
    /\ refList = <<RefA, RefB>>

\* C6 as claimed: a detachment, by attaching null or by running the
\* returned cleanup, runs every cleanup action recorded by the preceding
\* attach once, in the order recorded.
C6_DetachRunsRecorded ==
    /\ (lastOp = "cleanup" /\ prevOp = "attach") =>
          cleanupEvents = RecordedCleanupsOf(refList)
    /\ (lastOp = "attachNull" /\ prevOp = "attach") =>
          events = RecordedCleanupsOf(refList)

\* C6 as amended: running the returned cleanup runs every recorded cleanup
\* action once, in the order recorded, and keeps them; attaching null runs
\* none of them and assigns null to every target instead.
C6_CleanupRunsRecorded ==
    /\ lastOp = "cleanup" =>
          /\ cleanupEvents = RecordedCleanupsOf(refList)
          /\ events = <<>>
          /\ Len(returned) = Len(refList)
    /\ lastOp = "attachNull" =>
          /\ events = AssignmentsOf(refList, NullInst)
          /\ cleanupEvents = <<>>

C6_Witness ==
    /\ lastOp = "cleanup"
    /\ prevOp = "attach"
    /\ refList = <<RefC, NoRef, RefA>>
    /\ Len(cleanupEvents) = 2

----------------------------------------------------------------------------
(* The host renders a component that calls useRender: it mounts the       *)
(* element and attaches its ref, re-renders it with new options, and      *)
(* unmounts it.  When the element's ref prop or the instance changes the  *)
(* host runs the cleanup the old ref returned, then attaches the new one. *)

RefChoices == Targets \cup {NoRef}

\* options.ref: one ref or undefined, an empty array, an array of one entry
OptionsRefChoices ==
    {SingleRef(r) : r \in RefChoices}
        \cup {RefArray(<<>>)}
        \cup {RefArray(<<r>>) : r \in RefChoices}

HostInit ==
    /\ MergeIdle
    /\ RefIdle
    /\ ResolverIdle
    /\ HookIdle
    /\ phase = "initial"
    /\ propsRef = NoRef
    /\ optionsRef = SingleRef(NoRef)
    /\ baseRef \in RefChoices
    /\ memo = NoMemo
    /\ prevId = 0
    /\ prevList = <<>>
    /\ instance = NullInst
    /\ prevInstance = NullInst
    /\ repeated = FALSE

Mount(pRef, oRef, inst) ==
    /\ phase = "initial"
    /\ LET refs == useRenderRefs(pRef, oRef)
           cell == useComposedRef(refs, memo)
           c == attachElementRef(resolvedPropsRef(baseRef, ComposedRef),
                                 cell, inst, held)
       IN  /\ refList' = refs
           /\ memo' = cell
           /\ held' = c.held
           /\ events' = c.ev
           /\ returned' = c.cleanups
           /\ live' = LiveAfter(live, c.ev)
           /\ repeated' = HasRepeat(cell.refs)
    /\ cleanupEvents' = <<>>
    /\ propsRef' = pRef
    /\ optionsRef' = oRef
    /\ instance' = inst
    /\ phase' = "mounted"
    /\ lastOp' = "mount"
    /\ prevOp' = lastOp
    /\ nOps' = nOps + 1
    /\ UNCHANGED <<baseRef, prevId, prevList, prevInstance, mergeVars,
                   resolverVars, hookVars>>

Rerender(pRef, oRef, inst) ==
    /\ phase = "mounted"
    /\ nOps < MaxRenders
    /\ LET refs == useRenderRefs(pRef, oRef)
           cell == useComposedRef(refs, memo)
           d == runCleanups(returned, held)
           c == attachElementRef(resolvedPropsRef(baseRef, ComposedRef),
                                 cell, inst, d.held)
       IN  /\ refList' = refs
           /\ memo' = cell
           /\ repeated' = (repeated \/ HasRepeat(cell.refs))
           /\ IF cell.id # memo.id \/ inst # instance
              THEN /\ held' = c.held
                   /\ cleanupEvents' = d.ev
                   /\ events' = c.ev
                   /\ returned' = c.cleanups
                   /\ live' = LiveAfter(LiveAfter(live, d.ev), c.ev)
              ELSE /\ cleanupEvents' = <<>>
                   /\ events' = <<>>
                   /\ UNCHANGED <<held, returned, live>>
    /\ prevList' = refList
    /\ prevId' = memo.id
    /\ prevInstance' = instance
    /\ propsRef' = pRef
    /\ optionsRef' = oRef
    /\ instance' = inst
    /\ lastOp' = "rerender"
    /\ prevOp' = lastOp
    /\ nOps' = nOps + 1
    /\ UNCHANGED <<phase, baseRef, mergeVars, resolverVars, hookVars>>

Unmount ==
    /\ phase = "mounted"
    /\ LET d == runCleanups(returned, held)
       IN  /\ held' = d.held
           /\ cleanupEvents' = d.ev
           /\ live' = LiveAfter(live, d.ev)
    /\ events' = <<>>
    /\ returned' = <<>>
    /\ prevInstance' = instance
    /\ instance' = NullInst
    /\ phase' = "unmounted"
    /\ lastOp' = "unmount"
    /\ prevOp' = lastOp
    /\ nOps' = nOps + 1
    /\ UNCHANGED <<refList, propsRef, optionsRef, baseRef, memo, prevId,
                   prevList, repeated, mergeVars, resolverVars, hookVars>>

HostNext ==
    \/ \E pRef \in RefChoices, oRef \in OptionsRefChoices, inst \in Instances :
           Mount(pRef, oRef, inst)
    \/ \E pRef \in RefChoices, oRef \in OptionsRefChoices, inst \in Instances :
           Rerender(pRef, oRef, inst)
    \/ Unmount

SpecHost == HostInit /\ [][HostNext]_vars

----------------------------------------------------------------------------
(* Claims about the composed ref under the host *)

Range(seq) == {seq[i] : i \in DOMAIN seq}

CountOf(ref, evs) == Cardinality({i \in DOMAIN evs : evs[i].ref = ref})

\* the refs useRender is given in the last render
OptionsRefs == Range(optionsRef.items) \ {NoRef}

\* C7: once the component has unmounted no target holds an instance, and
\* while it is mounted no target outside the current refs array holds one.
C7_NoTargetLeftAttached ==
    /\ phase = "unmounted" => \A t \in Targets : held[t] = NullInst
    /\ phase = "mounted" =>
          \A t \in Targets \ Range(refList) : held[t] = NullInst

\* C8 as claimed: every target has at most one live assignment, and is
\* written once per attach and once per detach, for every refs array.
C8_OneLiveAssignment ==
    \A t \in Targets :
        /\ live[t] <= 1
        /\ CountOf(t, events) <= 1
        /\ CountOf(t, cleanupEvents) <= 1

\* C8 as amended: as long as no composed refs array names a target twice,
\* every target has at most one live assignment; each attach writes each
\* target of the array exactly once, each detach at most once, and exactly
\* the targets of the composed array are live while the element is mounted.
C8_OneLiveAssignmentDistinct ==
    ~repeated =>
        \A t \in Targets :
            /\ live[t] <= 1
            /\ CountOf(t, events) <= 1
            /\ CountOf(t, cleanupEvents) <= 1
            /\ (events # <<>> /\ t \in Range(memo.refs))
                  => CountOf(t, events) = 1
            /\ phase = "mounted" => (live[t] = 1 <=> t \in Range(memo.refs))
            /\ phase = "unmounted" =>
                  /\ live[t] = 0
                  /\ t \in Range(memo.refs) => CountOf(t, cleanupEvents) = 1

C8_Witness ==
    /\ ~repeated
    /\ lastOp = "rerender"
    /\ instance # prevInstance
    /\ memo.id # prevId
    /\ Len(events) = 2
    /\ Len(cleanupEvents) = 2

\* C9: a render whose refs array is element-wise identical to that of the
\* render before gets the identical composed callback, and no target is
\* detached or attached; a new composed callback means the arrays differ.
C9_StableComposedRef ==
    lastOp = "rerender" =>
        /\ refList = prevList =>
              /\ memo.id = prevId
              /\ instance = prevInstance =>
                    (events = <<>> /\ cleanupEvents = <<>>)
        /\ memo.id # prevId =>
              \/ Len(refList) # Len(prevList)
              \/ \E i \in DOMAIN refList : refList[i] # prevList[i]

C9_Witness ==
    /\ lastOp = "rerender"
    /\ refList = prevList
    /\ refList = <<RefA, RefC>>
    /\ instance = prevInstance
    /\ held[RefA] = instance
    /\ held[RefC] = instance

\* C10: while the element is attached, the ref of options.ref, the ref of
\* baseProps.ref and the ref of props.ref each hold the instance; after
\* the unmount each is cleared.
C10_AllThreeSourcesComposed ==
    /\ phase = "mounted" =>
          \A t \in (OptionsRefs \cup {baseRef, propsRef}) \ {NoRef} :
              held[t] = instance
    /\ phase = "unmounted" =>
          \A t \in (OptionsRefs \cup {baseRef, propsRef}) \ {NoRef} :
              held[t] = NullInst

----------------------------------------------------------------------------
(* Class names, styles and children (utils.ts, types.ts)                  *)

False == [t |-> "boolean", v |-> <<"false">>]
Zero == [t |-> "number", v |-> <<"0">>]
\* a plain object such as a style: o maps its own keys to their values
Obj(o) == [t |-> "object", v |-> <<>>, o |-> o]
\* the state object of a component; the tests use { isActive: boolean }
StateValue(s) == [t |-> "state", v |-> <<s>>]
States == {"inactive", "active"}

isString(value) == value.t = "string"

KeyClassName == <<"c", "l", "a", "s", "s", "N", "a", "m", "e">>
KeyStyle == <<"s", "t", "y", "l", "e">>
KeyChildren == <<"c", "h", "i", "l", "d", "r", "e", "n">>
KeyRender == <<"r", "e", "n", "d", "e", "r">>

\* the own enumerable properties a spread copies: none for undefined, null
OwnProps(value) == IF value.t = "object" THEN value.o ELSE [k \in {} |-> ""]

\* { ...a, ...b } of two values
ObjectSpread(a, b) == Obj(Spread(OwnProps(a), OwnProps(b)))

EmptyStyle == [k \in {} |-> ""]
StyleOf(keys, value) == [k \in keys |-> value]

\* the functions the tests and the README pass as className, style and
\* children, by name
ClsActive == <<"o", "n">>
ClsInactive == <<"o", "f", "f">>
ClsCustom == <<"c", "u", "s", "t", "o", "m">>

Arg(args, i) == IF i <= Len(args) THEN args[i] ELSE Undefined

\* what a render function returns: a node built from the arguments it was
\* given, e.g. (props) => <a {...props} href="/path" />
Rendered(id, args) == [t |-> "rendered", v |-> <<id>>, a |-> args]
RenderFns == {"renderAnchor"}
Call(fn, args) == [fn |-> fn.v[1], args |-> args]

\* fn(...args) for one of those functions
Apply(fn, args) ==
    LET id == fn.v[1]
        active == Arg(args, 1) = StateValue("active")
        second == Arg(args, 2)
    IN  CASE id \in {"classByState", "baseClassByState", "childrenByState",
                     "baseChildrenByState"} ->
                 Str(IF active THEN ClsActive ELSE ClsInactive)
          [] id = "classWithBase" ->
                 Str(ClsCustom \o <<" ">>
                         \o (IF isString(second) THEN second.v ELSE <<>>))
          [] id \in {"styleByState", "baseStyleByState"} ->
                 Obj(StyleOf({"color"}, IF active THEN "green" ELSE "gray"))
          [] id = "styleWithBase" ->
                 ObjectSpread(second, Obj(StyleOf({"color"}, "blue")))
          [] id \in RenderFns -> Rendered(id, args)
          [] id = "itemCustom" ->
                 Str(<<"c">> \o (IF active THEN ClsActive ELSE ClsInactive))
          [] id = "itemDefault" ->
                 Str(<<"d">> \o (IF active THEN ClsActive ELSE ClsInactive))
          [] OTHER -> Undefined

\* A faulty variant of clsx: the separator is added before every input.
RECURSIVE clsx_AlwaysSpace(_)
clsx_AlwaysSpace(inputs) ==
    IF inputs = <<>> THEN Str(<<>>)
    ELSE LET n == Len(inputs)
             str == clsx_AlwaysSpace(SubSeq(inputs, 1, n - 1)).v
             tmp == inputs[n]
         IN  IF Truthy(tmp) /\ isString(tmp)
             THEN Str(str \o <<" ">> \o tmp.v)
             ELSE Str(str)

\* clsx(...inputs): the truthy strings among the inputs, in order, joined
\* by one space:  str += (str && ' ') + tmp
RECURSIVE clsx(_)
clsx(inputs) ==
    IF inputs = <<>> THEN Str(<<>>)
    ELSE LET n == Len(inputs)
             str == clsx(SubSeq(inputs, 1, n - 1)).v
             tmp == inputs[n]
         IN  IF Truthy(tmp) /\ isString(tmp)
             THEN Str(str \o (IF str # <<>> THEN <<" ">> ELSE <<>>) \o tmp.v)
             ELSE Str(str)

\* What a resolver returns, with the calls of supplied functions it made.
Resolved(ret, made) == [ret |-> ret, calls |-> made]

\* A faulty variant of resolveClassName: a function override is given the
\* base as written, not the resolved base.
resolveClassName_RawBase(st, defaultClassName, propsClassName) ==
    LET fromFn == isFunction(defaultClassName)
        resolvedDefault ==
            IF fromFn THEN Apply(defaultClassName, <<StateValue(st)>>)
            ELSE defaultClassName
        made == IF fromFn THEN <<Call(defaultClassName, <<StateValue(st)>>)>>
                ELSE <<>>
    IN  IF ~isUndefined(propsClassName)
        THEN IF isFunction(propsClassName)
             THEN LET args == <<StateValue(st), defaultClassName>>
                  IN  Resolved(Apply(propsClassName, args),
                               made \o <<Call(propsClassName, args)>>)
             ELSE Resolved(clsx(<<resolvedDefault, propsClassName>>), made)
        ELSE Resolved(resolvedDefault, made)

\* A faulty variant of resolveClassName: the functions are given the state
\* of the first render, as a closure over a stale state would.
resolveClassName_FirstState(st, defaultClassName, propsClassName) ==
    LET first == StateValue("inactive")
        fromFn == isFunction(defaultClassName)
        resolvedDefault ==
            IF fromFn THEN Apply(defaultClassName, <<first>>)
            ELSE defaultClassName
        made == IF fromFn THEN <<Call(defaultClassName, <<first>>)>>
                ELSE <<>>
    IN  IF ~isUndefined(propsClassName)
        THEN IF isFunction(propsClassName)
             THEN LET args == <<first, resolvedDefault>>
                  IN  Resolved(Apply(propsClassName, args),
                               made \o <<Call(propsClassName, args)>>)
             ELSE Resolved(clsx(<<resolvedDefault, propsClassName>>), made)
        ELSE Resolved(resolvedDefault, made)

\* resolveClassName(state, defaultClassName, propsClassName)
resolveClassName(st, defaultClassName, propsClassName) ==
    LET fromFn == isFunction(defaultClassName)
        resolvedDefault ==
            IF fromFn THEN Apply(defaultClassName, <<StateValue(st)>>)
            ELSE defaultClassName
        made == IF fromFn THEN <<Call(defaultClassName, <<StateValue(st)>>)>>
                ELSE <<>>
    IN  IF ~isUndefined(propsClassName)
        THEN IF isFunction(propsClassName)
             THEN LET args == <<StateValue(st), resolvedDefault>>
                  IN  Resolved(Apply(propsClassName, args),
                               made \o <<Call(propsClassName, args)>>)
             ELSE Resolved(clsx(<<resolvedDefault, propsClassName>>), made)
        ELSE Resolved(resolvedDefault, made)

\* A faulty variant of resolveStyle: base values win over override values.
resolveStyle_BaseWins(st, defaultStyle, propsStyle) ==
    LET fromFn == isFunction(defaultStyle)
        resolvedDefault ==
            IF fromFn THEN Apply(defaultStyle, <<StateValue(st)>>)
            ELSE defaultStyle
        made == IF fromFn THEN <<Call(defaultStyle, <<StateValue(st)>>)>>
                ELSE <<>>
    IN  IF ~isUndefined(propsStyle)
        THEN IF isFunction(propsStyle)
             THEN LET args == <<StateValue(st), resolvedDefault>>
                  IN  Resolved(Apply(propsStyle, args),
                               made \o <<Call(propsStyle, args)>>)
             ELSE IF Truthy(resolvedDefault)
                  THEN Resolved(ObjectSpread(propsStyle, resolvedDefault),
                                made)
                  ELSE Resolved(propsStyle, made)
        ELSE Resolved(resolvedDefault, made)

\* resolveStyle(state, defaultStyle, propsStyle)
resolveStyle(st, defaultStyle, propsStyle) ==
    LET fromFn == isFunction(defaultStyle)
        resolvedDefault ==
            IF fromFn THEN Apply(defaultStyle, <<StateValue(st)>>)
            ELSE defaultStyle
        made == IF fromFn THEN <<Call(defaultStyle, <<StateValue(st)>>)>>
                ELSE <<>>
    IN  IF ~isUndefined(propsStyle)
        THEN IF isFunction(propsStyle)
             THEN LET args == <<StateValue(st), resolvedDefault>>
                  IN  Resolved(Apply(propsStyle, args),
                               made \o <<Call(propsStyle, args)>>)
             ELSE IF Truthy(resolvedDefault)
                  THEN Resolved(ObjectSpread(resolvedDefault, propsStyle),
                                made)
                  ELSE Resolved(propsStyle, made)
        ELSE Resolved(resolvedDefault, made)

----------------------------------------------------------------------------
(* resolveClassName and resolveStyle called on their own                  *)

StyleBase == [k \in {"padding", "margin"} |->
                 IF k = "padding" THEN "10px" ELSE "5px"]
StyleUser == [k \in {"padding", "color"} |->
                 IF k = "padding" THEN "20px" ELSE "red"]

BaseClassNames ==
    {Undefined, Str(<<>>), Str(<<"a">>), Str(<<"x", " ", "y">>),
     Fn("baseClassByState")}
UserClassNames ==
    {Undefined, Str(<<>>), Str(<<"b">>), Str(<<"b", " ", "c">>),
     Fn("classByState"), Fn("classWithBase"), Fn("classNone")}
BaseStyles ==
    {Undefined, Obj(EmptyStyle), Obj(StyleBase), Fn("baseStyleByState")}
UserStyles ==
    {Undefined, Obj(EmptyStyle), Obj(StyleUser), Obj(StyleBase),
     Fn("styleByState"), Fn("styleWithBase"), Fn("styleNone")}

ClassAndStyle(c, s) == (KeyClassName :> c) @@ (KeyStyle :> s)

ResolveInit ==
    /\ MergeIdle
    /\ RefIdle
    /\ HostIdle
    /\ HookIdle
    /\ tag = "div"
    /\ state \in States
    /\ options \in
           {[baseProps |-> ClassAndStyle(bc, bs),
             props |-> ClassAndStyle(c, s)] :
                bc \in BaseClassNames, bs \in BaseStyles,
                c \in UserClassNames, s \in UserStyles}
    /\ out = Undefined
    /\ fnCalls = <<>>
    /\ rpc = "init"

DoResolveClassName ==
    /\ rpc = "init"
    /\ LET r == resolveClassName(state, options.baseProps[KeyClassName],
                                 options.props[KeyClassName])
       IN  /\ out' = r.ret
           /\ fnCalls' = r.calls
    /\ rpc' = "resolveClassName"
    /\ UNCHANGED <<tag, state, options, mergeVars, refVars,
                   hostVars, hookVars>>

DoResolveStyle ==
    /\ rpc = "init"
    /\ LET r == resolveStyle(state, options.baseProps[KeyStyle],
                             options.props[KeyStyle])
       IN  /\ out' = r.ret
           /\ fnCalls' = r.calls
    /\ rpc' = "resolveStyle"
    /\ UNCHANGED <<tag, state, options, mergeVars, refVars,
                   hostVars, hookVars>>

ResolveNext ==
    \/ DoResolveClassName
    \/ DoResolveStyle

SpecResolve == ResolveInit /\ [][ResolveNext]_vars

----------------------------------------------------------------------------
(* Claims about resolveClassName and resolveStyle                         *)

IsEmptyClass(value) == isUndefined(value) \/ value = Str(<<>>)
IsPlainClass(value) == isUndefined(value) \/ isString(value)

\* C11: for a plain-string base S1 and a plain-string override S2,
\* resolveClassName returns S1, one space, S2; when one of them is the
\* empty string or undefined the result is the other value alone.
C11_ClassNamesJoined ==
    rpc = "resolveClassName" =>
        LET S1 == options.baseProps[KeyClassName]
            S2 == options.props[KeyClassName]
        IN  (IsPlainClass(S1) /\ IsPlainClass(S2)) =>
                /\ (~IsEmptyClass(S1) /\ ~IsEmptyClass(S2)) =>
                       out = Str(S1.v \o <<" ">> \o S2.v)
                /\ (IsEmptyClass(S1) /\ ~IsEmptyClass(S2)) => out = S2
                /\ (~IsEmptyClass(S1) /\ IsEmptyClass(S2)) => out = S1
                /\ (IsEmptyClass(S1) /\ IsEmptyClass(S2)) => out \in {S1, S2}
                /\ fnCalls = <<>>

C11_Witness ==
    /\ rpc = "resolveClassName"
    /\ options.baseProps[KeyClassName] = Str(<<"a">>)
    /\ options.props[KeyClassName] = Str(<<"b">>)
    /\ out = Str(<<"a", " ", "b">>)

ResolvedBase(base) ==
    IF isFunction(base) THEN Apply(base, <<StateValue(state)>>) ELSE base

CallsOf(fn) == SelectSeq(fnCalls, LAMBDA c : c.fn = fn.v[1])

ResolveKey ==
    IF rpc = "resolveClassName" THEN KeyClassName ELSE KeyStyle

\* C12: a function override of className (style) is called exactly once,
\* with (state, resolvedBase), and its result is returned as it is; a
\* function returning undefined yields undefined whatever the base is.
C12_FunctionOverrideReplaces ==
    (rpc \in {"resolveClassName", "resolveStyle"}
         /\ isFunction(options.props[ResolveKey])) =>
        LET override == options.props[ResolveKey]
            args == <<StateValue(state),
                      ResolvedBase(options.baseProps[ResolveKey])>>
        IN  /\ CallsOf(override) = <<Call(override, args)>>
            /\ out = Apply(override, args)
            /\ override \in {Fn("classNone"), Fn("styleNone")} =>
                   out = Undefined
            /\ override = Fn("classByState") =>
                   out = Str(IF state = "active" THEN ClsActive
                             ELSE ClsInactive)
            /\ override = Fn("styleByState") =>
                   out = Obj(StyleOf({"color"},
                             IF state = "active" THEN "green" ELSE "gray"))

C12_Witness ==
    /\ rpc = "resolveClassName"
    /\ options.baseProps[KeyClassName] = Fn("baseClassByState")
    /\ options.props[KeyClassName] = Fn("classWithBase")
    /\ state = "active"
    /\ out = Str(ClsCustom \o <<" ">> \o ClsActive)
    /\ Len(fnCalls) = 2

\* C13: for a plain-object base O1 and a plain-object override O2,
\* resolveStyle returns an object whose keys are the keys of O1 and of O2,
\* with O2's value for each key of O2 and O1's value for the others; with
\* no override it returns the resolved base, with no base the override.
C13_StyleUnionOverrideWins ==
    rpc = "resolveStyle" =>
        LET O1 == options.baseProps[KeyStyle]
            O2 == options.props[KeyStyle]
        IN  /\ (O1.t = "object" /\ O2.t = "object") =>
                   /\ out.t = "object"
                   /\ DOMAIN out.o = DOMAIN O1.o \cup DOMAIN O2.o
                   /\ \A k \in DOMAIN O2.o : out.o[k] = O2.o[k]
                   /\ \A k \in DOMAIN O1.o \ DOMAIN O2.o :
                          out.o[k] = O1.o[k]
            /\ isUndefined(O2) => out = ResolvedBase(O1)
            /\ (isUndefined(O1) /\ O2.t = "object") => out = O2

C13_Witness ==
    /\ rpc = "resolveStyle"
    /\ options.baseProps[KeyStyle] = Obj(StyleBase)
    /\ options.props[KeyStyle] = Obj(StyleUser)
    /\ out.t = "object"
    /\ DOMAIN out.o = {"padding", "margin", "color"}
    /\ out.o["padding"] = "20px"
    /\ out.o["margin"] = "5px"

----------------------------------------------------------------------------
(* Elements (react: createElement, cloneElement, isValidElement)          *)

\* an element: its type and its props, children among them
Element(type, elProps) == [t |-> "element", v |-> <<type>>, p |-> elProps]
\* a props object handed to a function as an argument
PropsValue(obj) == [t |-> "props", v |-> <<>>, p |-> obj]

isValidElement(value) == value.t = "element"

WithChildren(obj, kids) == Spread(obj, KeyChildren :> kids)

\* createElement(type, config, children): called with three arguments, so
\* props.children is set to the third, whatever it is
createElement(type, config, kids) == Element(type, WithChildren(config, kids))

\* cloneElement(element, config, children): the element's type, its props
\* overwritten by those config names, and children set to the third argument
cloneElement(element, config, kids) ==
    Element(element.v[1], WithChildren(Spread(element.p, config), kids))

\* const { a, b, ...others } = obj
Omit(obj, keys) == [k \in DOMAIN obj \ keys |-> obj[k]]

\* A key an object does not have, when objects are enumerated.
Absent == [t |-> "absent", v |-> <<>>]
MakeObject(f) == [k \in {x \in DOMAIN f : f[x] # Absent} |-> f[k]]

KeyHref == <<"h", "r", "e", "f">>

\* <a href="/path" />, and an element with attributes and children of its
\* own: <section id="own">own</section>
ElementA == Element("a", KeyHref :> Str(<<"/", "p">>))
ElementOwn ==
    Element("section",
            (KeyId :> Str(<<"o", "w", "n">>))
                @@ (KeyChildren :> Str(<<"o", "w", "n">>)))

----------------------------------------------------------------------------
(* renderSlot (fns/render-slot.ts)                                        *)

\* cx(baseClassName, className)
cx(inputs) == clsx(inputs)

\* A faulty variant of the style of renderSlot: only the consumer's style
\* decides whether there is a style.
slotStyle_OverrideOnly(baseStyle, style) ==
    IF Truthy(style) THEN ObjectSpread(baseStyle, style) ELSE Undefined

\* const resolvedStyle =
\*   baseStyle || style ? { ...baseStyle, ...style } : undefined
slotStyle(baseStyle, style) ==
    IF Truthy(baseStyle) \/ Truthy(style)
    THEN ObjectSpread(baseStyle, style)
    ELSE Undefined

\* children ?? baseChildren
Nullish(value) == value.t \in {"undefined", "null"}
Coalesce(a, b) == IF Nullish(a) THEN b ELSE a

\* typeof value === 'object'
TypeofObject(value) == value.t \in {"object", "null", "element"}

\* resolvedProps with className and style set when they pass their guards
WithClassAndStyle(merged, resolvedClassName, resolvedStyle) ==
    LET withClass ==
            IF isString(resolvedClassName)
            THEN Spread(merged, KeyClassName :> resolvedClassName)
            ELSE merged
    IN  IF TypeofObject(resolvedStyle)
        THEN Spread(withClass, KeyStyle :> resolvedStyle)
        ELSE withClass

\* resolvedProps and resolvedChildren of renderSlot
slotResolved(opts) ==
    LET baseProps == opts.baseProps
        uProps == opts.props
        base == Omit(baseProps, {KeyClassName, KeyStyle, KeyChildren})
        rest == Omit(uProps, {KeyClassName, KeyStyle, KeyChildren, KeyRender})
        resolvedClassName ==
            cx(<<Get(baseProps, KeyClassName), Get(uProps, KeyClassName)>>)
        resolvedStyle ==
            slotStyle(Get(baseProps, KeyStyle), Get(uProps, KeyStyle))
    IN  [props |-> WithClassAndStyle(mergeProps(base, rest),
                                     resolvedClassName, resolvedStyle),
         children |-> Coalesce(Get(uProps, KeyChildren),
                               Get(baseProps, KeyChildren))]

\* A faulty variant of renderSlot: an element override is not cloned, the
\* default tag is instantiated.
renderSlot_NoClone(tg, opts) ==
    LET r == slotResolved(opts)
        render == Get(opts.props, KeyRender)
    IN  IF isFunction(render) /\ ~isValidElement(render)
        THEN LET args == <<PropsValue(WithChildren(r.props, r.children))>>
             IN  Resolved(Apply(render, args), <<Call(render, args)>>)
        ELSE Resolved(createElement(tg, r.props, r.children), <<>>)

\* renderSlot(tag, options)
renderSlot(tg, opts) ==
    LET r == slotResolved(opts)
        render == Get(opts.props, KeyRender)
    IN  IF isValidElement(render)
        THEN Resolved(cloneElement(render, r.props, r.children), <<>>)
        ELSE IF isFunction(render)
        THEN LET args == <<PropsValue(WithChildren(r.props, r.children))>>
             IN  Resolved(Apply(render, args), <<Call(render, args)>>)
        ELSE Resolved(createElement(tg, r.props, r.children), <<>>)

SlotBaseProps ==
    {MakeObject((KeyClassName :> c) @@ (KeyStyle :> s) @@ (KeyChildren :> ch)
                    @@ (KeyId :> i)) :
        c \in {Absent, Str(<<"a">>)},
        s \in {Absent, Obj(EmptyStyle), Obj(StyleBase)},
        ch \in {Absent, Str(<<"d">>)},
        i \in {Absent, Str(<<"a">>)}}

SlotChildren ==
    {Absent, Undefined, Null, False, Zero, Str(<<>>), Str(<<"u">>)}
SlotRenders ==
    {Absent, ElementA, ElementOwn, Fn("renderAnchor"), Str(<<"x">>)}

SlotProps ==
    {MakeObject((KeyClassName :> c) @@ (KeyStyle :> s) @@ (KeyChildren :> ch)
                    @@ (KeyRender :> r) @@ (KeyId :> i)) :
        c \in {Absent, Str(<<"b">>)},
        s \in {Absent, Null, Obj(EmptyStyle), Obj(StyleUser)},
        ch \in SlotChildren,
        r \in SlotRenders,
        i \in {Absent, Str(<<"b">>)}}

SlotInit ==
    /\ MergeIdle
    /\ RefIdle
    /\ HostIdle
    /\ HookIdle
    /\ tag = "div"
    /\ state = "inactive"
    /\ options \in {[baseProps |-> b, props |-> u] :
                       b \in SlotBaseProps, u \in SlotProps}
    /\ out = Undefined
    /\ fnCalls = <<>>
    /\ rpc = "init"

DoRenderSlot ==
    /\ rpc = "init"
    /\ LET r == renderSlot(tag, options)
       IN  /\ out' = r.ret
           /\ fnCalls' = r.calls
    /\ rpc' = "renderSlot"
    /\ UNCHANGED <<tag, state, options, mergeVars, refVars,
                   hostVars, hookVars>>

SlotNext == DoRenderSlot

SpecSlot == SlotInit /\ [][SlotNext]_vars

----------------------------------------------------------------------------
(* Claims about the slot resolver                                         *)

\* the render override, the consumer's and the base's children and styles
RenderOverride == Get(options.props, KeyRender)
ConsumerChildren == Get(options.props, KeyChildren)
BaseChildren == Get(options.baseProps, KeyChildren)
ConsumerStyle == Get(options.props, KeyStyle)
BaseStyle == Get(options.baseProps, KeyStyle)

\* the attributes the result was given: the props of the element, or the
\* object a function override received
PropsArg(args) ==
    IF Arg(args, 1).t = "props" THEN args[1].p
    ELSE IF Arg(args, 2).t = "props" THEN args[2].p
    ELSE EmptyObject

GivenProps ==
    IF out.t = "element" THEN out.p
    ELSE IF out.t = "rendered" THEN PropsArg(out.a)
    ELSE EmptyObject

\* C14: renderSlot dispatches on render: an element is cloned (its type
\* and the attributes the resolved attributes do not name are kept, the
\* resolved attributes and children applied); a function is called once
\* with { ...resolvedAttributes, children } and its result returned; for
\* any other value the default tag is instantiated.
C14_SlotDispatch ==
    rpc = "renderSlot" =>
        LET r == slotResolved(options)
            named == DOMAIN r.props \cup {KeyChildren}
        IN  /\ isValidElement(RenderOverride) =>
                   /\ out.t = "element"
                   /\ out.v = RenderOverride.v
                   /\ DOMAIN out.p = DOMAIN RenderOverride.p \cup named
                   /\ \A k \in DOMAIN RenderOverride.p \ named :
                          out.p[k] = RenderOverride.p[k]
                   /\ \A k \in DOMAIN r.props : out.p[k] = r.props[k]
                   /\ out.p[KeyChildren] = r.children
                   /\ fnCalls = <<>>
            /\ (isFunction(RenderOverride) /\ ~isValidElement(RenderOverride))
                   => LET args == <<PropsValue(WithChildren(r.props,
                                                            r.children))>>
                      IN  /\ fnCalls = <<Call(RenderOverride, args)>>
                          /\ out = Apply(RenderOverride, args)
            /\ (~isFunction(RenderOverride) /\ ~isValidElement(RenderOverride))
                   => /\ out.t = "element"
                      /\ out.v = <<tag>>
                      /\ out.p = WithChildren(r.props, r.children)
                      /\ fnCalls = <<>>

C14_Witness ==
    /\ rpc = "renderSlot"
    /\ RenderOverride = ElementOwn
    /\ ConsumerChildren = Str(<<"u">>)
    /\ Get(options.props, KeyId) = Undefined
    /\ Get(options.baseProps, KeyId) = Undefined
    /\ out.t = "element"
    /\ out.v = <<"section">>
    /\ Get(out.p, KeyId) = Str(<<"o", "w", "n">>)
    /\ Get(out.p, KeyChildren) = Str(<<"u">>)

\* C15: the resolved children are the consumer's children whenever the
\* consumer passed a value other than undefined (null, false, 0 and ""
\* included), and the base children only when the consumer's are undefined.
C15_ChildrenUnlessUndefined ==
    rpc = "renderSlot" =>
        GivenProps[KeyChildren] =
            IF isUndefined(ConsumerChildren) THEN BaseChildren
            ELSE ConsumerChildren

IsNonEmptyObject(value) == value.t = "object" /\ DOMAIN value.o # {}

\* C16: the resolved attributes carry the style { ...base.style,
\* ...consumer.style } when at least one side is a non-empty object, and
\* no style otherwise, in particular when both sides are absent or empty
\* objects.
C16_StyleOnlyIfNonEmpty ==
    rpc = "renderSlot" =>
        IF IsNonEmptyObject(BaseStyle) \/ IsNonEmptyObject(ConsumerStyle)
        THEN /\ KeyStyle \in DOMAIN GivenProps
             /\ GivenProps[KeyStyle] = ObjectSpread(BaseStyle, ConsumerStyle)
        ELSE KeyStyle \notin DOMAIN GivenProps

\* C16 as amended: the style is the shallow merge when at least one side is
\* an object, empty or not (two empty objects give an empty style object),
\* and there is no style when neither side is an object.
C16_StyleIfEitherObject ==
    rpc = "renderSlot" =>
        IF BaseStyle.t = "object" \/ ConsumerStyle.t = "object"
        THEN /\ KeyStyle \in DOMAIN GivenProps
             /\ GivenProps[KeyStyle].t = "object"
             /\ LET o == GivenProps[KeyStyle].o
                    b == OwnProps(BaseStyle)
                    c == OwnProps(ConsumerStyle)
                IN  /\ DOMAIN o = DOMAIN b \cup DOMAIN c
                    /\ \A k \in DOMAIN c : o[k] = c[k]
                    /\ \A k \in DOMAIN b \ DOMAIN c : o[k] = b[k]
        ELSE KeyStyle \notin DOMAIN GivenProps

C16_Witness ==
    /\ rpc = "renderSlot"
    /\ BaseStyle = Obj(EmptyStyle)
    /\ ConsumerStyle = Obj(EmptyStyle)
    /\ KeyStyle \in DOMAIN GivenProps
    /\ GivenProps[KeyStyle] = Obj(EmptyStyle)

----------------------------------------------------------------------------
(* useRender (use-render.ts) and useRenderContainer                       *)

OwnKeys == {KeyClassName, KeyStyle, KeyChildren, KeyRef, KeyRender}

\* resolvedProps of useRender and of useRenderContainer, with the calls of
\* className and style functions made on the way:
\*   { ...mergeProps(base, rest), ref: mergedRef }, then className and
\*   style when they pass their guards
statefulResolved(st, opts) ==
    LET baseProps == opts.baseProps
        uProps == opts.props
        base == Omit(baseProps, {KeyClassName, KeyStyle, KeyChildren})
        rest == Omit(uProps, OwnKeys)
        rc == resolveClassName(st, Get(baseProps, KeyClassName),
                               Get(uProps, KeyClassName))
        rs == resolveStyle(st, Get(baseProps, KeyStyle),
                           Get(uProps, KeyStyle))
        mergedRef == ComposedRef
    IN  [props |-> WithClassAndStyle(
                       Spread(mergeProps(base, rest), KeyRef :> mergedRef),
                       rc.ret, rs.ret),
         calls |-> rc.calls \o rs.calls]

\* const resolvedChildren = isFunction(children) ? children(state) : children
resolveChildren(st, kids) ==
    IF isFunction(kids)
    THEN Resolved(Apply(kids, <<StateValue(st)>>),
                  <<Call(kids, <<StateValue(st)>>)>>)
    ELSE Resolved(kids, <<>>)

\* A faulty variant of useRender: the render function is called with the
\* state first, as in render(state, { ...resolvedProps, children }).
useRender_StateFirst(tg, st, opts) ==
    LET r == statefulResolved(st, opts)
        rk == resolveChildren(st, Get(opts.props, KeyChildren))
        render == Get(opts.props, KeyRender)
        made == r.calls \o rk.calls
    IN  IF isValidElement(render)
        THEN Resolved(cloneElement(render, r.props, rk.ret), made)
        ELSE IF isFunction(render)
        THEN LET args == <<StateValue(st),
                           PropsValue(WithChildren(r.props, rk.ret))>>
             IN  Resolved(Apply(render, args),
                          made \o <<Call(render, args)>>)
        ELSE Resolved(createElement(tg, r.props,
                          Coalesce(rk.ret, Get(opts.baseProps, KeyChildren))),
                      made)

\* useRender(tag, state, options)
useRender(tg, st, opts) ==
    LET r == statefulResolved(st, opts)
        rk == resolveChildren(st, Get(opts.props, KeyChildren))
        render == Get(opts.props, KeyRender)
        made == r.calls \o rk.calls
    IN  IF isValidElement(render)
        THEN Resolved(cloneElement(render, r.props, rk.ret), made)
        ELSE IF isFunction(render)
        THEN LET args == <<PropsValue(WithChildren(r.props, rk.ret)),
                           StateValue(st)>>
             IN  Resolved(Apply(render, args),
                          made \o <<Call(render, args)>>)
        ELSE Resolved(createElement(tg, r.props,
                          Coalesce(rk.ret, Get(opts.baseProps, KeyChildren))),
                      made)

\* createElement(type, config) and cloneElement(element, config): with two
\* arguments the children are those of config
createElementFrom(type, config) == Element(type, config)
cloneElementWith(element, config) ==
    Element(element.v[1], Spread(element.p, config))

\* useRenderContainer(tag, containerState, options): the containerProps
useRenderContainer(tg, containerState, opts) ==
    LET r == statefulResolved(containerState, opts)
    IN  Resolved(PropsValue(r.props), r.calls)

\* A faulty variant of Container: the render function is called with the
\* state first.
Container_StateFirst(tg, containerState, opts, containerChildren) ==
    LET resolvedProps == statefulResolved(containerState, opts).props
        render == Get(opts.props, KeyRender)
        propsWithChildren == WithChildren(resolvedProps, containerChildren)
    IN  IF isValidElement(render)
        THEN Resolved(cloneElementWith(render, propsWithChildren), <<>>)
        ELSE IF isFunction(render)
        THEN LET args == <<StateValue(containerState),
                           PropsValue(propsWithChildren)>>
             IN  Resolved(Apply(render, args), <<Call(render, args)>>)
        ELSE Resolved(createElementFrom(tg, propsWithChildren), <<>>)

\* Container({ children: containerChildren }), the component the hook
\* returns; it closes over resolvedProps, render, containerState and tag
Container(tg, containerState, opts, containerChildren) ==
    LET resolvedProps == statefulResolved(containerState, opts).props
        render == Get(opts.props, KeyRender)
        propsWithChildren == WithChildren(resolvedProps, containerChildren)
    IN  IF isValidElement(render)
        THEN Resolved(cloneElementWith(render, propsWithChildren), <<>>)
        ELSE IF isFunction(render)
        THEN LET args == <<PropsValue(propsWithChildren),
                           StateValue(containerState)>>
             IN  Resolved(Apply(render, args), <<Call(render, args)>>)
        ELSE Resolved(createElementFrom(tg, propsWithChildren), <<>>)

RenderBaseProps ==
    {MakeObject((KeyClassName :> c) @@ (KeyStyle :> s) @@ (KeyChildren :> ch)
                    @@ (KeyOnClick :> h)) :
        c \in {Absent, Str(<<"a">>)},
        s \in {Absent, Obj(StyleBase)},
        ch \in {Absent, Str(<<"d">>), Fn("baseChildrenByState")},
        h \in {Absent, Fn(DefaultHandler)}}

RenderProps ==
    {MakeObject((KeyClassName :> c) @@ (KeyStyle :> s) @@ (KeyChildren :> ch)
                    @@ (KeyRender :> r) @@ (KeyOnClick :> h)
                    @@ (KeyRef :> rf)) :
        c \in {Absent, Str(<<"b">>), Fn("classByState")},
        s \in {Absent, Fn("styleWithBase")},
        ch \in {Absent, Null, Str(<<"u">>), Fn("childrenByState"),
                Fn("childrenNone")},
        r \in {Absent, ElementOwn, Fn("renderAnchor")},
        h \in {Absent, Fn(UserHandler)},
        rf \in {Absent, RefValue(RefA)}}

\* the tree a component passes to <Container>
ContainerTrees == {Undefined, Str(<<"i", "t", "e", "m", "s">>)}

RenderInit ==
    /\ MergeIdle
    /\ RefIdle
    /\ HostIdle
    /\ HookIdle
    /\ tag = "button"
    /\ state \in States
    /\ options \in {[baseProps |-> b, props |-> u] :
                       b \in RenderBaseProps, u \in RenderProps}
    /\ out = Undefined
    /\ fnCalls = <<>>
    /\ rpc = "init"

DoUseRender ==
    /\ rpc = "init"
    /\ LET r == useRender(tag, state, options)
       IN  /\ out' = r.ret
           /\ fnCalls' = r.calls
    /\ rpc' = "useRender"
    /\ UNCHANGED <<tag, state, options, mergeVars, refVars,
                   hostVars, hookVars>>

DoUseRenderContainer ==
    /\ rpc = "init"
    /\ LET r == useRenderContainer(tag, state, options)
       IN  /\ out' = r.ret
           /\ fnCalls' = r.calls
    /\ rpc' = "useRenderContainer"
    /\ UNCHANGED <<tag, state, options, mergeVars, refVars,
                   hostVars, hookVars>>

\* the host renders <Container>{containerChildren}</Container>
DoContainer(containerChildren) ==
    /\ rpc = "useRenderContainer"
    /\ LET r == Container(tag, state, options, containerChildren)
       IN  /\ out' = r.ret
           /\ fnCalls' = fnCalls \o r.calls
    /\ rpc' = "Container"
    /\ UNCHANGED <<tag, state, options, mergeVars, refVars,
                   hostVars, hookVars>>

RenderNext ==
    \/ DoUseRender
    \/ DoUseRenderContainer
    \/ \E kids \in ContainerTrees : DoContainer(kids)

SpecRender == RenderInit /\ [][RenderNext]_vars

----------------------------------------------------------------------------
(* Claims about the stateful resolver                                     *)

\* the consumer's children if provided, the base's otherwise
ChosenChildren ==
    IF ~isUndefined(ConsumerChildren) THEN ConsumerChildren ELSE BaseChildren

\* C17: the children chosen for rendering are the consumer's if provided
\* and the base's otherwise; when the chosen value is a function, from
\* either side, it is invoked exactly once with the state and its result
\* is what is rendered.
C17_ChosenChildrenResolved ==
    rpc = "useRender" =>
        /\ Get(GivenProps, KeyChildren) =
               IF isFunction(ChosenChildren)
               THEN Apply(ChosenChildren, <<StateValue(state)>>)
               ELSE ChosenChildren
        /\ isFunction(ChosenChildren) =>
               CallsOf(ChosenChildren) =
                   <<Call(ChosenChildren, <<StateValue(state)>>)>>

\* C18: when the consumer provides no children, the base children are
\* rendered in all three branches: default tag, cloned element, and the
\* children field of the attributes passed to a function override.
C18_BaseChildrenInEveryBranch ==
    (rpc = "useRender" /\ isUndefined(ConsumerChildren)
         /\ ~isFunction(BaseChildren)) =>
        Get(GivenProps, KeyChildren) = BaseChildren

\* the call of the render function, the last call a resolver makes
RenderCall == fnCalls[Len(fnCalls)]

----------------------------------------------------------------------------
(* A component that calls useRender at every render, with the same options *)
(* and a state that changes between renders                                *)

RerenderBaseProps ==
    {MakeObject((KeyClassName :> c) @@ (KeyStyle :> s)) :
        c \in {Absent, Str(<<"a">>), Fn("baseClassByState")},
        s \in {Absent, Fn("baseStyleByState")}}

RerenderProps ==
    {MakeObject((KeyClassName :> c) @@ (KeyStyle :> s) @@ (KeyChildren :> ch)
                    @@ (KeyRender :> r)) :
        c \in {Str(<<"b">>), Fn("classByState"), Fn("classWithBase")},
        s \in {Absent, Fn("styleByState"), Fn("styleWithBase")},
        ch \in {Str(<<"u">>), Fn("childrenByState")},
        r \in {Absent, Fn("renderAnchor")}}

RerenderInit ==
    /\ MergeIdle
    /\ RefIdle
    /\ HostIdle
    /\ HookIdle
    /\ tag = "button"
    /\ state = "inactive"
    /\ options \in {[baseProps |-> b, props |-> u] :
                       b \in RerenderBaseProps, u \in RerenderProps}
    /\ out = Undefined
    /\ fnCalls = <<>>
    /\ rpc = "init"

\* one render of the component: the hook runs again with the state of this
\* render; fnCalls keeps the calls of all the renders so far
RenderWithState(st) ==
    /\ renders < MaxHookRenders
    /\ LET r == useRender(tag, st, options)
       IN  /\ out' = r.ret
           /\ fnCalls' = fnCalls \o r.calls
    /\ state' = st
    /\ renders' = renders + 1
    /\ rpc' = "useRender"
    /\ UNCHANGED <<tag, options, mergeVars, refVars, hostVars, cells, ids,
                   itemStates, itemOut, containerEl, tree>>

RerenderNext == \E st \in States : RenderWithState(st)

SpecRerender == RerenderInit /\ [][RerenderNext]_vars

ConsumerClassName == Get(options.props, KeyClassName)
BaseClassName == Get(options.baseProps, KeyClassName)

ByState(whenActive, whenInactive) ==
    IF state = "active" THEN whenActive ELSE whenInactive

\* the state a call of a supplied function was given
StateOfCall(c) == c.args[1]

\* C21: at every render of a sequence with unchanged options, a function
\* className, style or children is called with the state of that render
\* (once per render) and the class name, style and children rendered are
\* those the function gives for that state, whatever the earlier states.
C21_ResolvedForCurrentState ==
    renders > 0 =>
        /\ isFunction(ConsumerClassName) =>
               /\ Len(CallsOf(ConsumerClassName)) = renders
               /\ StateOfCall(CallsOf(ConsumerClassName)[renders])
                      = StateValue(state)
        /\ ConsumerClassName = Fn("classByState") =>
               Get(GivenProps, KeyClassName)
                   = Str(ByState(ClsActive, ClsInactive))
        /\ (ConsumerClassName = Fn("classWithBase")
                /\ BaseClassName = Fn("baseClassByState")) =>
               Get(GivenProps, KeyClassName)
                   = Str(ClsCustom \o <<" ">>
                             \o ByState(ClsActive, ClsInactive))
        /\ ConsumerStyle = Fn("styleByState") =>
               Get(GivenProps, KeyStyle)
                   = Obj(StyleOf({"color"}, ByState("green", "gray")))
        /\ (ConsumerStyle = Fn("styleWithBase")
                /\ BaseStyle = Fn("baseStyleByState")) =>
               /\ Get(GivenProps, KeyStyle)
                      = Obj(StyleOf({"color"}, "blue"))
               /\ CallsOf(ConsumerStyle)[renders].args
                      = <<StateValue(state),
                          Obj(StyleOf({"color"}, ByState("green", "gray")))>>
        /\ isFunction(ConsumerChildren) =>
               /\ Get(GivenProps, KeyChildren)
                      = Str(ByState(ClsActive, ClsInactive))
               /\ Len(CallsOf(ConsumerChildren)) = renders
               /\ CallsOf(ConsumerChildren)[renders]
                      = Call(ConsumerChildren, <<StateValue(state)>>)

\* the second render has another state than the first, and its class name
\* is the one of the second state
C21_Witness ==
    /\ renders = 2
    /\ state = "active"
    /\ ConsumerClassName = Fn("classWithBase")
    /\ BaseClassName = Fn("baseClassByState")
    /\ StateOfCall(CallsOf(ConsumerClassName)[1]) = StateValue("inactive")
    /\ StateOfCall(CallsOf(ConsumerClassName)[2]) = StateValue("active")
    /\ Get(GivenProps, KeyClassName)
           = Str(ClsCustom \o <<" ">> \o ClsActive)
    /\ ConsumerChildren = Fn("childrenByState")
    /\ Get(GivenProps, KeyChildren) = Str(ClsActive)

----------------------------------------------------------------------------
(* useRenderContainer over several renders, with its useMemo and           *)
(* useCallback cells (use-render-container.ts)                             *)

\* Object.is tells two objects or functions apart by reference; strings,
\* undefined and null by value
IsReference(value) ==
    value.t \notin {"string", "undefined", "null", "boolean", "number"}

\* a dependency of a hook: the value, and for a reference the render at
\* which the reference was made (0 for a value compared by value)
Dep(value, gen) == [val |-> value, gen |-> IF IsReference(value) THEN gen ELSE 0]

\* an object built in the body of the hook: a new reference at each render
FreshDep(obj, gen) == [val |-> PropsValue(obj), gen |-> gen]

\* useMemo(() => value, deps) and useCallback(fn, deps): the cell keeps
\* what it holds while the dependencies are the same, index by index
useMemoCell(cell, deps, value, gen) ==
    IF cell.gen # 0 /\ areHookInputsEqual(deps, cell.deps)
    THEN cell
    ELSE [deps |-> deps, val |-> value, gen |-> gen]

\* A faulty variant of renderItemDeps: children is left out of the
\* dependencies of renderItem.
renderItemDeps_BaseOnly(kids, baseKids) == <<baseKids>>

\* the dependencies of renderItem: [children, baseChildren]
renderItemDeps(kids, baseKids) == <<kids, baseKids>>

\* A faulty variant of containerHook: the children function is resolved
\* when the hook runs, with the container state, as useRender does.
containerHook_EagerChildren(tg, containerState, opts, inputIds, gen, prev) ==
    LET baseProps == opts.baseProps
        uProps == opts.props
        base == Omit(baseProps, {KeyClassName, KeyStyle, KeyChildren})
        rest == Omit(uProps, OwnKeys)
        baseChildren == Get(baseProps, KeyChildren)
        children == Get(uProps, KeyChildren)
        render == Get(uProps, KeyRender)
        rc == resolveClassName(containerState, Get(baseProps, KeyClassName),
                               Get(uProps, KeyClassName))
        rs == resolveStyle(containerState, Get(baseProps, KeyStyle),
                           Get(uProps, KeyStyle))
        rk == resolveChildren(containerState, children)
        mergedRef == ComposedRef
        propsCell ==
            useMemoCell(prev.props,
                        <<FreshDep(base, gen), FreshDep(rest, gen),
                          Dep(mergedRef, 0), Dep(rc.ret, 0), Dep(rs.ret, gen)>>,
                        PropsValue(WithClassAndStyle(
                            Spread(mergeProps(base, rest),
                                   KeyRef :> mergedRef),
                            rc.ret, rs.ret)),
                        gen)
        containerCell ==
            useMemoCell(prev.container,
                        <<[val |-> propsCell.val, gen |-> propsCell.gen],
                          Dep(render, gen),
                          Dep(StateValue(containerState), gen),
                          [val |-> tg, gen |-> 0]>>,
                        [resolvedProps |-> propsCell.val.p,
                         render |-> render,
                         containerState |-> containerState,
                         tag |-> tg],
                        gen)
        itemCell ==
            useMemoCell(prev.item,
                        renderItemDeps(Dep(children, inputIds.children),
                                       Dep(baseChildren,
                                           inputIds.baseChildren)),
                        [children |-> children,
                         baseChildren |-> baseChildren],
                        gen)
    IN  [cells |-> [props |-> propsCell, container |-> containerCell,
                    item |-> itemCell],
         ret |-> propsCell.val,
         calls |-> rc.calls \o rs.calls \o rk.calls]

\* useRenderContainer(tag, containerState, options) at one render of the
\* component: prev holds the cells of the render before, gen numbers this
\* render, inputIds says which children references the caller passed
\* again. The render override and the state object are taken as new
\* references at each render; a cell that depends on them depends on
\* resolvedProps too, which is rebuilt whenever base and rest are.
containerHook(tg, containerState, opts, inputIds, gen, prev) ==
    LET baseProps == opts.baseProps
        uProps == opts.props
        base == Omit(baseProps, {KeyClassName, KeyStyle, KeyChildren})
        rest == Omit(uProps, OwnKeys)
        baseChildren == Get(baseProps, KeyChildren)
        children == Get(uProps, KeyChildren)
        render == Get(uProps, KeyRender)
        rc == resolveClassName(containerState, Get(baseProps, KeyClassName),
                               Get(uProps, KeyClassName))
        rs == resolveStyle(containerState, Get(baseProps, KeyStyle),
                           Get(uProps, KeyStyle))
        mergedRef == ComposedRef
        propsCell ==
            useMemoCell(prev.props,
                        <<FreshDep(base, gen), FreshDep(rest, gen),
                          Dep(mergedRef, 0), Dep(rc.ret, 0), Dep(rs.ret, gen)>>,
                        PropsValue(WithClassAndStyle(
                            Spread(mergeProps(base, rest),
                                   KeyRef :> mergedRef),
                            rc.ret, rs.ret)),
                        gen)
        containerCell ==
            useMemoCell(prev.container,
                        <<[val |-> propsCell.val, gen |-> propsCell.gen],
                          Dep(render, gen),
                          Dep(StateValue(containerState), gen),
                          [val |-> tg, gen |-> 0]>>,
                        [resolvedProps |-> propsCell.val.p,
                         render |-> render,
                         containerState |-> containerState,
                         tag |-> tg],
                        gen)
        itemCell ==
            useMemoCell(prev.item,
                        renderItemDeps(Dep(children, inputIds.children),
                                       Dep(baseChildren,
                                           inputIds.baseChildren)),
                        [children |-> children,
                         baseChildren |-> baseChildren],
                        gen)
    IN  [cells |-> [props |-> propsCell, container |-> containerCell,
                    item |-> itemCell],
         ret |-> propsCell.val,
         calls |-> rc.calls \o rs.calls]

\* A faulty variant of callContainer: the element is given resolvedProps,
\* without the children the caller passed.
callContainer_DropsTree(closure, containerChildren) ==
    IF isValidElement(closure.render)
    THEN Resolved(cloneElementWith(closure.render, closure.resolvedProps),
                  <<>>)
    ELSE IF isFunction(closure.render)
    THEN LET args == <<PropsValue(closure.resolvedProps),
                       StateValue(closure.containerState)>>
         IN  Resolved(Apply(closure.render, args),
                      <<Call(closure.render, args)>>)
    ELSE Resolved(createElementFrom(closure.tag, closure.resolvedProps), <<>>)

\* Container({ children: containerChildren }) as the callback of a render:
\* closure holds the resolvedProps, render, containerState and tag the
\* callback closed over
callContainer(closure, containerChildren) ==
    LET propsWithChildren ==
            WithChildren(closure.resolvedProps, containerChildren)
    IN  IF isValidElement(closure.render)
        THEN Resolved(cloneElementWith(closure.render, propsWithChildren),
                      <<>>)
        ELSE IF isFunction(closure.render)
        THEN LET args == <<PropsValue(propsWithChildren),
                           StateValue(closure.containerState)>>
             IN  Resolved(Apply(closure.render, args),
                          <<Call(closure.render, args)>>)
        ELSE Resolved(createElementFrom(closure.tag, propsWithChildren), <<>>)

\* A faulty variant of renderItem: the base children shadow the consumer's.
renderItem_BaseFirst(closure, itemState) ==
    LET childrenToRender ==
            IF ~isUndefined(closure.baseChildren) THEN closure.baseChildren
            ELSE closure.children
    IN  IF isFunction(childrenToRender)
        THEN Resolved(Apply(childrenToRender, <<StateValue(itemState)>>),
                      <<Call(childrenToRender, <<StateValue(itemState)>>)>>)
        ELSE Resolved(childrenToRender, <<>>)

\* renderItem(itemState) as the callback of a render: closure holds the
\* children and baseChildren the callback closed over
renderItem(closure, itemState) ==
    LET childrenToRender ==
            IF ~isUndefined(closure.children) THEN closure.children
            ELSE closure.baseChildren
    IN  IF isFunction(childrenToRender)
        THEN Resolved(Apply(childrenToRender, <<StateValue(itemState)>>),
                      <<Call(childrenToRender, <<StateValue(itemState)>>)>>)
        ELSE Resolved(childrenToRender, <<>>)

\* A faulty variant of cellsAfterRenderItem: renderItem leaves the item
\* state where Container reads the container state.
cellsAfterRenderItem_Leak(c, itemState) ==
    [c EXCEPT !.container.val.containerState = itemState]

\* the cells of the hook after a call of renderItem: the callback reads
\* children and baseChildren and assigns nothing
cellsAfterRenderItem(c, itemState) == c

ContainerBaseProps ==
    {MakeObject((KeyChildren :> ch) @@ (KeyOnClick :> h)) :
        ch \in {Absent, Fn("itemDefault")},
        h \in {Fn(DefaultHandler)}}

ContainerProps ==
    {MakeObject((KeyClassName :> c) @@ (KeyChildren :> ch)
                    @@ (KeyRender :> r)) :
        c \in {Fn("classByState")},
        ch \in {Absent, Str(<<"u">>), Fn("itemCustom")},
        r \in {Absent, ElementOwn, Fn("renderAnchor")}}

ContainerTags == {"ul", "ol"}

\* the tag and the props of a render: the tag is varied where it shows,
\* with no render override
ContainerCalls ==
    {c \in [tag : ContainerTags, props : ContainerProps] :
        c.tag = "ul" \/ isUndefined(Get(c.props, KeyRender))}

ContainerInit ==
    /\ MergeIdle
    /\ RefIdle
    /\ HostIdle
    /\ ResolverIdle
    /\ HookIdle

\* the reference of a value the caller passes at a render: the one of the
\* render before when the caller passes the same object or function again
NextId(now, before, idBefore, same, gen) ==
    IF ~IsReference(now) THEN 0
    ELSE IF same /\ idBefore # 0 /\ now = before THEN idBefore
    ELSE gen

\* one render of the component: the hook runs with the inputs of this
\* render; sameRefs says whether the caller passes again the references of
\* the render before where the values are the same
RenderContainer(tg, st, opts, sameRefs) ==
    /\ renders < MaxHookRenders
    /\ LET gen == renders + 1
           newIds ==
               [children |->
                    NextId(Get(opts.props, KeyChildren),
                           Get(options.props, KeyChildren),
                           ids.children, sameRefs, gen),
                baseChildren |->
                    NextId(Get(opts.baseProps, KeyChildren),
                           Get(options.baseProps, KeyChildren),
                           ids.baseChildren, sameRefs, gen)]
       IN  \E h \in {containerHook(tg, st, opts, newIds, gen, cells)} :
               /\ cells' = h.cells
               /\ ids' = newIds
               /\ out' = h.ret
               /\ fnCalls' = h.calls
               /\ renders' = gen
    /\ tag' = tg
    /\ state' = st
    /\ options' = opts
    /\ itemStates' = <<>>
    /\ itemOut' = Undefined
    /\ containerEl' = Undefined
    /\ tree' = Undefined
    /\ rpc' = "useRenderContainer"
    /\ UNCHANGED <<mergeVars, refVars, hostVars>>

\* the component calls renderItem(itemState) of the latest render
CallRenderItem(itemState) ==
    /\ renders > 0
    /\ Len(itemStates) < MaxItems
    /\ LET r == renderItem(cells.item.val, itemState)
       IN  /\ itemOut' = r.ret
           /\ fnCalls' = fnCalls \o r.calls
    /\ itemStates' = Append(itemStates, itemState)
    /\ cells' = cellsAfterRenderItem(cells, itemState)
    /\ rpc' = "renderItem"
    /\ UNCHANGED <<tag, state, options, out, ids, renders, containerEl, tree,
                   mergeVars, refVars, hostVars>>

\* the host renders <Container>{containerChildren}</Container>
CallContainer(containerChildren) ==
    /\ renders > 0
    /\ containerEl.t = "undefined"
    /\ LET r == callContainer(cells.container.val, containerChildren)
       IN  /\ containerEl' = r.ret
           /\ fnCalls' = fnCalls \o r.calls
    /\ tree' = containerChildren
    /\ rpc' = "Container"
    /\ UNCHANGED <<tag, state, options, out, cells, ids, renders, itemStates,
                   itemOut, mergeVars, refVars, hostVars>>

ContainerNext ==
    \/ \E c \in ContainerCalls, st \in States, b \in ContainerBaseProps,
          sameRefs \in BOOLEAN :
           RenderContainer(c.tag, st, [baseProps |-> b, props |-> c.props],
                           sameRefs)
    \/ \E itemState \in States : CallRenderItem(itemState)
    \/ \E containerChildren \in ContainerTrees :
           CallContainer(containerChildren)

SpecContainer == ContainerInit /\ [][ContainerNext]_vars

\* the attributes the container element was given: the props of the
\* element, or the object a function override received
ContainerGiven ==
    IF containerEl.t = "element" THEN containerEl.p
    ELSE IF containerEl.t = "rendered" THEN PropsArg(containerEl.a)
    ELSE EmptyObject

\* the item state of the last renderItem call
LastItem == itemStates[Len(itemStates)]

ItemLabel(prefix, itemState) ==
    Str(prefix \o (IF itemState = "active" THEN ClsActive ELSE ClsInactive))

\* C22: the containerProps and the container element are those that the
\* tag, the container state, baseProps and props of the render determine
\* (the class name is resolved with the container state, a function render
\* is given the container state), whatever item states renderItem was
\* given since, and however many times it was called.
C22_ContainerIgnoresItemStates ==
    renders > 0 =>
        /\ out = useRenderContainer(tag, state, options).ret
        /\ Get(out.p, KeyClassName) = Str(ByState(ClsActive, ClsInactive))
        /\ containerEl.t # "undefined" =>
               /\ containerEl = Container(tag, state, options, tree).ret
               /\ Get(ContainerGiven, KeyClassName)
                      = Str(ByState(ClsActive, ClsInactive))
               /\ containerEl.t = "rendered" =>
                      containerEl.a[2] = StateValue(state)

\* the container is rendered after two items of another state
C22_Witness ==
    /\ rpc = "Container"
    /\ state = "inactive"
    /\ itemStates = <<"active", "active">>
    /\ containerEl.t = "rendered"
    /\ containerEl.a[2] = StateValue("inactive")
    /\ Get(ContainerGiven, KeyClassName) = Str(ClsInactive)

\* C23: renderItem(itemState) takes the consumer's children when they are
\* not undefined and the base children otherwise; a function is applied to
\* the item state and its result returned, a plain value is returned as it
\* is for every item state.
C23_RenderItemChoosesChildren ==
    rpc = "renderItem" =>
        /\ ~isUndefined(ConsumerChildren) =>
               itemOut = IF isFunction(ConsumerChildren)
                         THEN Apply(ConsumerChildren, <<StateValue(LastItem)>>)
                         ELSE ConsumerChildren
        /\ isUndefined(ConsumerChildren) =>
               itemOut = IF isFunction(BaseChildren)
                         THEN Apply(BaseChildren, <<StateValue(LastItem)>>)
                         ELSE BaseChildren
        /\ ConsumerChildren = Fn("itemCustom") =>
               itemOut = ItemLabel(<<"c">>, LastItem)
        /\ ConsumerChildren = Str(<<"u">>) => itemOut = Str(<<"u">>)
        /\ (isUndefined(ConsumerChildren)
                /\ BaseChildren = Fn("itemDefault")) =>
               itemOut = ItemLabel(<<"d">>, LastItem)

\* both sides give a children function, and the item state is not the
\* container state
C23_Witness ==
    /\ rpc = "renderItem"
    /\ state = "inactive"
    /\ LastItem = "active"
    /\ ConsumerChildren = Fn("itemCustom")
    /\ BaseChildren = Fn("itemDefault")
    /\ itemOut = Str(<<"c">> \o ClsActive)

ItemFns == {Fn("itemCustom"), Fn("itemDefault")}

\* C24: within a render, a children function has been called once for
\* each renderItem call so far, with the item states in call order, and by
\* nothing else: not by the hook, not by rendering Container; a children
\* function that is not the chosen one is not called at all.
C24_ChildrenCalledOnlyByRenderItem ==
    renders > 0 =>
        \A fn \in ItemFns :
            /\ (ChosenChildren = fn) =>
                   /\ Len(CallsOf(fn)) = Len(itemStates)
                   /\ \A i \in 1..Len(itemStates) :
                          CallsOf(fn)[i]
                              = Call(fn, <<StateValue(itemStates[i])>>)
            /\ (ChosenChildren # fn) => CallsOf(fn) = <<>>

\* two renderItem calls and a rendered container
C24_Witness ==
    /\ rpc = "Container"
    /\ state = "inactive"
    /\ itemStates = <<"active", "inactive">>
    /\ ChosenChildren = Fn("itemCustom")
    /\ CallsOf(Fn("itemCustom"))
           = <<Call(Fn("itemCustom"), <<StateValue("active")>>),
               Call(Fn("itemCustom"), <<StateValue("inactive")>>)>>

\* C25: rendering Container gives the containerProps, with the tree the
\* caller passed as children, to a clone of an element override (which
\* keeps its type and its other attributes), to a function override
\* (called with them and the container state, its result returned), or to
\* an element of the default tag; the children are the tree, never the
\* consumer's children prop.
C25_ContainerRendersTree ==
    containerEl.t # "undefined" =>
        LET P == out.p
            given == WithChildren(P, tree)
        IN  /\ isValidElement(RenderOverride) =>
                   /\ containerEl.t = "element"
                   /\ containerEl.v = RenderOverride.v
                   /\ DOMAIN containerEl.p
                          = DOMAIN RenderOverride.p \cup DOMAIN given
                   /\ \A k \in DOMAIN containerEl.p :
                          containerEl.p[k] = IF k \in DOMAIN given
                                             THEN given[k]
                                             ELSE RenderOverride.p[k]
            /\ isFunction(RenderOverride) =>
                   /\ containerEl
                          = Apply(RenderOverride,
                                  <<PropsValue(given), StateValue(state)>>)
                   /\ CallsOf(RenderOverride)
                          = <<Call(RenderOverride,
                                   <<PropsValue(given), StateValue(state)>>)>>
            /\ (~isValidElement(RenderOverride)
                    /\ ~isFunction(RenderOverride)) =>
                   /\ containerEl.t = "element"
                   /\ containerEl.v = <<tag>>
                   /\ containerEl.p = given
            /\ KeyChildren \in DOMAIN ContainerGiven
            /\ ContainerGiven[KeyChildren] = tree

\* an element override with children of its own, a consumer with a
\* children prop, and a tree
C25_Witness ==
    /\ rpc = "Container"
    /\ RenderOverride = ElementOwn
    /\ ConsumerChildren = Str(<<"u">>)
    /\ tree = Str(<<"i", "t", "e", "m", "s">>)
    /\ containerEl.t = "element"
    /\ containerEl.v = ElementOwn.v
    /\ Get(containerEl.p, KeyId) = Get(ElementOwn.p, KeyId)
    /\ Get(containerEl.p, KeyChildren) = tree
    /\ Get(containerEl.p, KeyClassName) = Str(ByState(ClsActive, ClsInactive))

\* C30: after every render, the containerProps are those resolved from the
\* inputs of that render, the Container callback closes over that render's
\* resolved attributes, render override, container state and tag, and the
\* renderItem callback over that render's children and base children,
\* also when a cell kept the callback of an earlier render.
C30_NoStaleMemo ==
    renders > 0 =>
        /\ out = PropsValue(statefulResolved(state, options).props)
        /\ Get(out.p, KeyOnClick) = Get(options.baseProps, KeyOnClick)
        /\ cells.container.val.resolvedProps = out.p
        /\ cells.container.val.render = RenderOverride
        /\ cells.container.val.containerState = state
        /\ cells.container.val.tag = tag
        /\ cells.item.val.children = ConsumerChildren
        /\ cells.item.val.baseChildren = BaseChildren

\* the second render kept the renderItem callback of the first, with
\* another container state, and renderItem was called
C30_Witness ==
    /\ renders = 2
    /\ cells.item.gen = 1
    /\ cells.container.gen = 2
    /\ state = "active"
    /\ cells.container.deps[3].val = StateValue("active")
    /\ Get(out.p, KeyClassName) = Str(ClsActive)
    /\ ConsumerChildren = Fn("itemCustom")
    /\ rpc = "renderItem"
    /\ itemOut = ItemLabel(<<"c">>, LastItem)

----------------------------------------------------------------------------
(* mergeProps with handlers that throw *)

ThrowBaseValues == {Fn(DefaultHandler), Fn(DefaultThrows)}
ThrowOverrideValues == {Fn(UserHandler), Fn(UserThrows)}

ThrowInit ==
    /\ defaultProps \in ObjectsOver(ThrowBaseValues)
    /\ props \in ObjectsOver(ThrowOverrideValues)
    /\ result = EmptyObject
    /\ mpc = "init"
    /\ lastCall = NoCall
    /\ callLog = <<>>
    /\ nCalls = 0
    /\ RefIdle
    /\ HostIdle
    /\ HookIdle
    /\ ResolverIdle

SpecThrow == ThrowInit /\ [][MergeNext]_vars

\* C28: when a composed handler is invoked and the override handler
\* throws, the call ends by throwing and the base handler has not run;
\* when the override returns and the base handler throws, the call ends by
\* throwing, after both ran in that order, and returns no value.
C28_HandlerFailuresPropagate ==
    (mpc = "called" /\ result[lastCall.key].t = "composed") =>
        LET override == props[lastCall.key].v[1]
            base == defaultProps[lastCall.key].v[1]
        IN  /\ override = UserThrows =>
                   /\ lastCall.threw
                   /\ lastCall.calls = <<UserThrows>>
                   /\ lastCall.ret = Undefined
            /\ (override = UserHandler /\ base = DefaultThrows) =>
                   /\ lastCall.threw
                   /\ lastCall.calls = <<UserHandler, DefaultThrows>>
                   /\ lastCall.ret = Undefined
                   /\ lastCall.ret # HandlerReturn(UserHandler)
            /\ (override = UserHandler /\ base = DefaultHandler) =>
                   /\ ~lastCall.threw
                   /\ lastCall.ret = HandlerReturn(UserHandler)

\* the override returned, then the base handler threw
C28_Witness ==
    /\ mpc = "called"
    /\ lastCall.key = KeyOnClick
    /\ result[KeyOnClick] = Composed(KeyOnClick)
    /\ props[KeyOnClick] = Fn(UserHandler)
    /\ defaultProps[KeyOnClick] = Fn(DefaultThrows)
    /\ lastCall.threw
    /\ lastCall.calls = <<UserHandler, DefaultThrows>>

----------------------------------------------------------------------------
(* useRenderSlot (use-render-slot.ts): the slot hook with options.ref *)

\* options.props?.ref
slotPropsRef(opts) ==
    IF opts.hasProps /\ KeyRef \in DOMAIN opts.props
    THEN opts.props[KeyRef].v[1]
    ELSE NoRef

\* the options useRenderSlot builds for renderSlot:
\*   if (options.props) renderOptions.props = { ...options.props, ref: mergedRef }
\*   if (options.baseProps) renderOptions.baseProps = options.baseProps
renderOptions(opts, mergedRef) ==
    [baseProps |-> opts.baseProps,
     props |-> IF opts.hasProps
               THEN Spread(opts.props, KeyRef :> mergedRef)
               ELSE EmptyObject]

\* useRenderSlot(tag, options): cell is the useMemo cell of useComposedRef
useRenderSlot(tg, opts, cell) ==
    LET composed == useComposedRef(useRenderRefs(slotPropsRef(opts), opts.ref),
                                   cell)
        r == renderSlot(tg, renderOptions(opts, ComposedRef))
    IN  [ret |-> r.ret, calls |-> r.calls, memo |-> composed]

SlotHookBaseProps ==
    {MakeObject((KeyClassName :> c)) : c \in {Absent, Str(<<"a">>)}}

SlotHookProps ==
    {MakeObject((KeyClassName :> c) @@ (KeyRender :> r) @@ (KeyRef :> rf)) :
        c \in {Absent, Str(<<"b">>)},
        r \in {Absent, ElementOwn, Fn("renderAnchor")},
        rf \in {Absent, RefValue(RefC)}}

SlotHookRefs ==
    {SingleRef(NoRef), SingleRef(RefA), RefArray(<<>>),
     RefArray(<<RefA, RefB>>)}

SlotHookOptions ==
    {[baseProps |-> b, props |-> u, hasProps |-> TRUE, ref |-> r] :
        b \in SlotHookBaseProps, u \in SlotHookProps, r \in SlotHookRefs}
    \cup
    {[baseProps |-> b, props |-> EmptyObject, hasProps |-> FALSE, ref |-> r] :
        b \in SlotHookBaseProps, r \in SlotHookRefs}

SlotHookInit ==
    /\ MergeIdle
    /\ RefIdle
    /\ HostIdle
    /\ HookIdle
    /\ tag = "div"
    /\ state = "inactive"
    /\ options \in SlotHookOptions
    /\ out = Undefined
    /\ fnCalls = <<>>
    /\ rpc = "init"

DoUseRenderSlot ==
    /\ rpc = "init"
    /\ \E r \in {useRenderSlot(tag, options, memo)} :
           /\ out' = r.ret
           /\ fnCalls' = r.calls
           /\ memo' = r.memo
    /\ rpc' = "useRenderSlot"
    /\ UNCHANGED <<tag, state, options, mergeVars, refVars, hookVars,
                   phase, propsRef, optionsRef, baseRef, prevId, prevList,
                   instance, prevInstance, repeated>>

\* the host mounts what the hook returned and attaches the ref attribute
\* of the element, when it has one, to the instance
AttachSlot(value) ==
    /\ rpc = "useRenderSlot"
    /\ IF KeyRef \in DOMAIN GivenProps
       THEN LET c == attachElementRef(GivenProps[KeyRef], memo, value, held)
            IN  /\ held' = c.held
                /\ events' = c.ev
       ELSE UNCHANGED <<held, events>>
    /\ instance' = value
    /\ rpc' = "attached"
    /\ UNCHANGED <<tag, state, options, out, fnCalls, mergeVars, hookVars,
                   refList, live, cleanupEvents, returned, lastOp, prevOp,
                   nOps, hostRest>>

SlotHookNext ==
    \/ DoUseRenderSlot
    \/ \E value \in Instances : AttachSlot(value)

SpecSlotHook == SlotHookInit /\ [][SlotHookNext]_vars

\* the targets named by options.ref
OptionTargets ==
    {options.ref.items[i] : i \in DOMAIN options.ref.items} \ {NoRef}

\* C29: once the element the slot hook returned is attached to an instance,
\* every target of options.ref holds that instance, whether options.props
\* was supplied or not and whether it carries a ref or not.
C29_OptionsRefAttached ==
    rpc = "attached" =>
        \A t \in OptionTargets : held[t] = instance

----------------------------------------------------------------------------
(* Two calls of useRender with the same inputs *)

\* the targets that the ref attribute of the element of this render writes
\* when the host attaches it, in order
RefBehaviour(cell) == DefinedRefs(cell.refs)

\* C26, for the ref attribute of the stateful resolver: the element
\* resolved at a render has a ref attribute that behaves as the one of a
\* first call with the same props.ref and options.ref, whatever renders
\* came in between.
C26_SameInputsSameResult ==
    phase = "mounted" =>
        RefBehaviour(memo)
            = RefBehaviour(useComposedRef(useRenderRefs(propsRef, optionsRef),
                                          NoMemo))

----------------------------------------------------------------------------
(* The assignments the mergers and resolvers make, and the objects they    *)
(* are made to                                                             *)

\* target[key] = value, the target named by the variable that holds it
Write(target, key, value) == [target |-> target, key |-> key, value |-> value]

\* an object after those of the assignments that are made to it
AfterWrites(obj, name, writes) ==
    LET mine == {w \in writes : w.target = name}
        keys == DOMAIN obj \cup {w.key : w \in mine}
    IN  [k \in keys |->
            IF \E w \in mine : w.key = k
            THEN (CHOOSE w \in mine : w.key = k).value
            ELSE obj[k]]

\* the assignments of a callee, its parameters bound to the caller's
\* objects
Rebound(writes, binding) ==
    {Write(binding[w.target], w.key, w.value) : w \in writes}

ComposedKeys(dProps, uProps) ==
    {k \in DOMAIN dProps :
        isHandler(k) /\ Truthy(dProps[k]) /\ Truthy(Get(uProps, k))}

\* A faulty variant of mergePropsWrites: the merge is made in place, as
\* with const result = Object.assign(defaultProps, props).
mergePropsWrites_InPlace(dProps, uProps) ==
    {Write("defaultProps", k, uProps[k]) : k \in DOMAIN uProps}
        \cup {Write("defaultProps", k, Composed(k)) :
                 k \in ComposedKeys(dProps, uProps)}

\* the assignments of mergeProps: result[key] = (...args) => ..., where
\* result is the new object { ...defaultProps, ...props }
mergePropsWrites(dProps, uProps) ==
    {Write("result", k, Composed(k)) : k \in ComposedKeys(dProps, uProps)}

\* a resolver calls mergeProps(base, rest)
ResolverBinding ==
    [n \in {"defaultProps", "props", "result"} |->
        IF n = "defaultProps" THEN "base"
        ELSE IF n = "props" THEN "rest" ELSE "result"]

\* the caller of mergeProps holds the arguments as baseProps and props
CallerBinding ==
    [n \in {"defaultProps", "props", "result"} |->
        IF n = "defaultProps" THEN "baseProps"
        ELSE IF n = "props" THEN "props" ELSE "result"]

\* resolvedProps.className = resolvedClassName and resolvedProps.style =
\* resolvedStyle, where resolvedProps is a new object
resolvedPropsWrites(resolved) ==
    {Write("resolvedProps", k, resolved[k]) :
        k \in {KeyClassName, KeyStyle} \cap DOMAIN resolved}

\* the assignments of renderSlot; base and rest are new objects, made by
\* the rest destructuring of baseProps and props
slotWrites(opts) ==
    Rebound(mergePropsWrites(
                Omit(opts.baseProps, {KeyClassName, KeyStyle, KeyChildren}),
                Omit(opts.props,
                     {KeyClassName, KeyStyle, KeyChildren, KeyRender})),
            ResolverBinding)
        \cup resolvedPropsWrites(slotResolved(opts).props)

\* the assignments of useRender and of useRenderContainer
statefulWrites(st, opts) ==
    Rebound(mergePropsWrites(
                Omit(opts.baseProps, {KeyClassName, KeyStyle, KeyChildren}),
                Omit(opts.props, OwnKeys)),
            ResolverBinding)
        \cup resolvedPropsWrites(statefulResolved(st, opts).props)

FrameCalls ==
    {"mergeProps", "resolveClassName", "resolveStyle", "renderSlot",
     "useRender", "useRenderContainer"}

\* the assignments one call of fnName makes
writesOf(fnName, st, opts) ==
    CASE fnName = "mergeProps" ->
             Rebound(mergePropsWrites(opts.baseProps, opts.props),
                     CallerBinding)
      [] fnName \in {"resolveClassName", "resolveStyle"} -> {}
      [] fnName = "renderSlot" -> slotWrites(opts)
      [] OTHER -> statefulWrites(st, opts)

\* what one call of fnName returns
returnOf(fnName, tg, st, opts) ==
    CASE fnName = "mergeProps" ->
             Resolved(PropsValue(mergeProps(opts.baseProps, opts.props)),
                      <<>>)
      [] fnName = "resolveClassName" ->
             resolveClassName(st, Get(opts.baseProps, KeyClassName),
                              Get(opts.props, KeyClassName))
      [] fnName = "resolveStyle" ->
             resolveStyle(st, Get(opts.baseProps, KeyStyle),
                          Get(opts.props, KeyStyle))
      [] fnName = "renderSlot" -> renderSlot(tg, opts)
      [] fnName = "useRender" -> useRender(tg, st, opts)
      [] OTHER -> useRenderContainer(tg, st, opts)

FrameBaseProps ==
    {MakeObject((KeyClassName :> c) @@ (KeyStyle :> s) @@ (KeyOnClick :> h)) :
        c \in {Absent, Str(<<"a">>)},
        s \in {Absent, Obj(StyleBase)},
        h \in {Absent, Fn(DefaultHandler)}}

FrameProps ==
    {MakeObject((KeyClassName :> c) @@ (KeyStyle :> s) @@ (KeyOnClick :> h)) :
        c \in {Absent, Str(<<"b">>), Fn("classByState")},
        s \in {Absent, Obj(StyleUser)},
        h \in {Absent, Fn(UserHandler)}}

FrameInit ==
    /\ MergeIdle
    /\ RefIdle
    /\ HostIdle
    /\ HookIdle
    /\ tag = "div"
    /\ state \in States
    /\ options \in {[baseProps |-> b, props |-> u] :
                       b \in FrameBaseProps, u \in FrameProps}
    /\ out = Undefined
    /\ fnCalls = <<>>
    /\ rpc = "init"

\* one call of a merger or resolver with baseProps, props and state: the
\* objects the caller holds are as the assignments of the call leave them
FrameCall(fnName) ==
    /\ rpc = "init"
    /\ \E writes \in {writesOf(fnName, state, options)},
          r \in {returnOf(fnName, tag, state, options)} :
           /\ options' =
                  [baseProps |->
                       AfterWrites(options.baseProps, "baseProps", writes),
                   props |-> AfterWrites(options.props, "props", writes)]
           /\ out' = r.ret
           /\ fnCalls' = r.calls
    /\ rpc' = fnName
    /\ UNCHANGED <<tag, state, mergeVars, refVars, hostVars, hookVars>>

FrameNext == \E fnName \in FrameCalls : FrameCall(fnName)

SpecFrame == FrameInit /\ [][FrameNext]_vars

\* C27: a call of mergeProps, resolveClassName, resolveStyle, renderSlot,
\* useRender or useRenderContainer leaves the baseProps object and the
\* props object, with their style objects, and the state with the keys
\* and values they had before the call.
C27_InputsUnchanged ==
    [][options' = options /\ state' = state]_vars

\* mergeProps composed a handler into its result, and the two arguments
\* still hold their own handlers
C27_Witness ==
    /\ rpc = "mergeProps"
    /\ Get(out.p, KeyOnClick) = Composed(KeyOnClick)
    /\ Get(out.p, KeyStyle) = Obj(StyleUser)
    /\ Get(options.baseProps, KeyOnClick) = Fn(DefaultHandler)
    /\ Get(options.baseProps, KeyStyle) = Obj(StyleBase)
    /\ Get(options.props, KeyOnClick) = Fn(UserHandler)

====
